---- MODULE Spec2Model ----
(***************************************************************************)
(* Model of the nanoindentation analysis core of micromechanics:           *)
(* segmentation of a force/depth/time trace into load-hold-unload cycles   *)
(* (identifyLoadHoldUnload), the unloading stiffness fit                   *)
(* (stiffnessFromUnloading), analyse(), the test iterator of Indentation   *)
(* and the two-stage calibration.                                          *)
(*                                                                         *)
(* Arrays are TLA+ sequences (1-based); every index stored in the state    *)
(* (iLHU, iDrift, loadIdx, ...) is the 0-based index of the Python code,   *)
(* read through At(s, i).  Forces, depths and times are integers in        *)
(* arbitrary units; thresholds that are fractions in the code are kept as  *)
(* numerator/denominator pairs.                                            *)
(***************************************************************************)
EXTENDS Integers, Sequences, FiniteSets, TLC

VARIABLES
  t,            \* self.t      time samples
  h,            \* self.h      depth samples
  p,            \* self.p      force samples
  valid,        \* self.valid  Mask(boolean array), or None
  iLHU,         \* self.iLHU   list of cycles
  iDrift,       \* self.iDrift
  method,       \* self.method
  successTest,  \* self.output['successTest']
  testName,     \* self.testName
  testList,     \* self.testList: the tests of the file not loaded yet
  allTestList,  \* self.allTestList: all tests of the file
  file,         \* the data file: for each sheet, the trace recorded in it
  newFileRead,  \* self.newFileRead
  loop,         \* position of a `for testName in indentation` statement
  visited,      \* the test names the for statement has bound so far (history)
  cal,          \* position and local variables of a running calibration()
  slope,        \* self.slope  Arr(stiffness per cycle), or None
  k2p,          \* self.k2p
  modulusRed,   \* self.modulusRed
  modulus,      \* self.modulus
  Ac,           \* self.Ac
  hc,           \* self.hc
  hardness,     \* self.hardness
  metaUser,     \* self.metaUser: the lists saved by saveToUserMeta, or NoMeta
  tip,          \* self.tip: [compliance, prefactors]
  evaluateSAtMax, \* self.model['evaluateSAtMax']
  model,          \* self.model, the dictionary _DefaultModel: its vendor-dependent keys
  modelUserChoice,\* self.modelUserChoice
  vendor,         \* self.vendor
  exc,          \* exception raised by the last call ("none" when it returned)
  lastOp,       \* the last operation called on the object
  calls,        \* number of operations called so far
  edges,        \* loadIdx/unloadIdx as zipped by the last segmentation (history)
  hist          \* what the last analyse() met, cycle by cycle (history)

arrays  == <<t, h, p, valid>>
cycles  == <<iLHU, iDrift, method, successTest, edges>>
results == <<slope, k2p, modulusRed, modulus, Ac, hc, hardness, metaUser>>
config  == <<tip, evaluateSAtMax, model, modelUserChoice, vendor>>
tests   == <<testName, testList, allTestList, file, newFileRead>>
forLoop == <<loop, visited>>
vars == <<arrays, cycles, results, config, tests, forLoop, cal, exc, lastOp, calls, hist>>

None == [none |-> TRUE]                  \* valid = None
Mask(m) == [mask |-> m]                  \* valid = a boolean array
Arr(a)  == [arr |-> a]                   \* a numpy array of results
NoMeta  == [empty |-> TRUE]              \* metaUser without analysis results
Num(x)  == [value |-> x]                 \* a number where None may stand
Unset   == [unset |-> TRUE]              \* a local variable not assigned yet
Frac(a, b) == [num |-> a, den |-> b]     \* the float a/b (inf or nan when b = 0)
\* Tip.prefactors, the list [c0, c1, ..., tag]: prefactors[:-1] and prefactors[-1]
Prefactors(values, tag) == [values |-> values, tag |-> tag]
NoCal   == [pc |-> "idle", pAll |-> <<>>, hAll |-> <<>>, sAll |-> <<>>,
            frameCompliance |-> Unset, tipBefore |-> Unset, failedAt |-> "none",
            numPolynomial |-> 3, constantTerm |-> FALSE, result |-> Unset,
            critDepth |-> Unset, critForce |-> Unset, tests |-> <<>>]
NoHist  == [analysed |-> FALSE, raisedAt |-> 0, emptyWindow |-> 0, skipped |-> FALSE,
            powerlawFit |-> <<>>, windows |-> <<>>]

----------------------------------------------------------------------------
(* Bounds of the model *)

MaxRuns   == 4        \* number of constant-rate runs a generated trace is made of
ShortRun  == 4        \* samples of a short run (shorter than maxSizeFluctuations)
LongRun   == 34       \* samples of a long run
PBase     == 10000    \* force offset a trace may start from
MaxCalls  == 3        \* operations called on one object
MaxTests  == 2        \* tests in a file
FastRate  == 4        \* force rate of a fast unloading
MaxCompliance == 1    \* frame compliance of the tip
MaxPolynomial == 3    \* largest numPolynomial that calibration is called with
MaxObjects == 2       \* Indentation objects made in one process

(* Program constants *)

MinLenCleanup       == 100   \* len(loadMask)>100, main.py:201
maxSizeFluctuations == 10    \* _DefaultModel
MedfiltKernel       == 5     \* signal.medfilt(self.p, 5)
relForceRateNoiseNum == 2    \* relForceRateNoise = 0.02 = 2/100
relForceRateNoiseDen == 100
forceNoiseNum == 1           \* forceNoise = 0.001 = 1/1000
forceNoiseDen == 1000
TooCloseDivisor == 1000      \* np.percentile(gradTime,80)/1.e3
TooClosePercentile == 80

----------------------------------------------------------------------------
(* Helpers for arrays *)

At(s, i) == s[i + 1]                    \* s[i] of the code, i a 0-based index
Mat(s)   == s \o <<>>                   \* the array with every element computed
Idx(s)   == 0 .. (Len(s) - 1)           \* range(len(s))

Min2(a, b) == IF a < b THEN a ELSE b
Max2(a, b) == IF a > b THEN a ELSE b
SetMax(S) == CHOOSE x \in S : \A y \in S : y <= x
SetMin(S) == CHOOSE x \in S : \A y \in S : x <= y

\* s[mask]: the elements of s at the positions where mask is True, in order
Compress(s, mask) ==
  IF \A i \in DOMAIN mask : mask[i] THEN s
  ELSE LET K == {i \in DOMAIN mask : mask[i]}
       IN  Mat([k \in 1 .. Cardinality(K) |->
                  s[CHOOSE i \in K : Cardinality({j \in K : j <= i}) = k]])

\* the sorted list of a set of integers (np.flatnonzero returns ascending indices)
RECURSIVE SortedSeq(_)
SortedSeq(S) ==
  IF S = {} THEN <<>>
  ELSE LET m == SetMin(S) IN <<m>> \o SortedSeq(S \ {m})

----------------------------------------------------------------------------
(* identifyLoadHoldUnload, numerical front end (main.py 173-188) *)

\* np.diff(self.t)
gradTime(tt) == [i \in 1 .. (Len(tt) - 1) |-> tt[i + 1] - tt[i]]

\* 100 * np.percentile(g, 80), linear interpolation between the order statistics
KthSmallest(g, k) ==
  SetMin({v \in {g[i] : i \in DOMAIN g} :
            Cardinality({i \in DOMAIN g : g[i] <= v}) > k})
Percentile80x100(g) ==
  LET pos  == TooClosePercentile * (Len(g) - 1)
      lo   == pos \div 100
      frac == pos % 100
      a    == KthSmallest(g, lo)
      b    == IF frac = 0 THEN a ELSE KthSmallest(g, lo + 1)
  IN  100 * a + frac * (b - a)

\* ~maskTooClose, one entry per sample of array[1:]
keepMask(tt) ==
  LET g == Mat(gradTime(tt))
  IN  IF Len(g) = 0 THEN <<>>
      ELSE LET pc80 == Percentile80x100(g)
           IN  Mat([i \in 1 .. Len(g) |-> ~(g[i] * 100 * TooCloseDivisor < pc80)])

\* array[1:][~maskTooClose]
dropTooClose(a, keep) == Compress(Tail(a), keep)

\* signal.medfilt(self.p, 5): median of the zero-padded window
medfilt(pp) ==
  LET half == MedfiltKernel \div 2
      W(i) == [k \in 1 .. MedfiltKernel |->
                 IF i + k - 1 - half \in DOMAIN pp THEN pp[i + k - 1 - half] ELSE 0]
      Med(w) == SetMin({v \in {w[k] : k \in DOMAIN w} :
                         Cardinality({k \in DOMAIN w : w[k] <= v}) > half})
  IN  Mat([i \in 1 .. Len(pp) |-> Med(W(i))])

\* 2 * np.gradient(p, self.t) for equally spaced samples (spacing 1): central
\* differences inside, one-sided differences at both ends; needs len(p) >= 2
gradient2(pf) ==
  LET n == Len(pf)
  IN  Mat([i \in 1 .. n |->
             IF i = 1 THEN 2 * (pf[2] - pf[1])
             ELSE IF i = n THEN 2 * (pf[n] - pf[n - 1])
             ELSE pf[i + 1] - pf[i - 1]])

\* rate /= np.max(rate); rate > relForceRateNoise   (divide errors are ignored:
\* x/0 is nan for x = 0 and -inf for x < 0, a nan compares False)
rateAbove(g, gmax) ==
  IF gmax > 0 THEN g * relForceRateNoiseDen > relForceRateNoiseNum * gmax
  ELSE IF gmax < 0 THEN g * relForceRateNoiseDen < relForceRateNoiseNum * gmax
  ELSE FALSE
\* rate < -relForceRateNoise
rateBelow(g, gmax) ==
  IF gmax > 0 THEN g * relForceRateNoiseDen < -(relForceRateNoiseNum * gmax)
  ELSE IF gmax < 0 THEN g * relForceRateNoiseDen > -(relForceRateNoiseNum * gmax)
  ELSE g < 0

aboveForceNoise(x) == x * forceNoiseDen > forceNoiseNum

rawLoadMask(pf, rate) ==
  LET gmax == SetMax({rate[i] : i \in DOMAIN rate})
  IN  Mat([i \in DOMAIN pf |-> rateAbove(rate[i], gmax) /\ aboveForceNoise(pf[i])])
rawUnloadMask(pf, rate) ==
  LET gmax == SetMax({rate[i] : i \in DOMAIN rate})
  IN  Mat([i \in DOMAIN pf |-> rateBelow(rate[i], gmax) /\ aboveForceNoise(pf[i])])

----------------------------------------------------------------------------
(* Morphological cleaning (main.py 200-209): scipy.ndimage on a 1-D mask with *)
(* structure np.ones(size), origin 0, border_value 0                          *)

\* binary_erosion: the structure, centred at size//2, fits inside the mask
binary_erosion(m, size) ==
  LET c == size \div 2
  IN  Mat([i \in DOMAIN m |->
             \A k \in (i - c) .. (i + size - 1 - c) : k \in DOMAIN m /\ m[k]])
\* binary_dilation: the reflected structure hits the mask
binary_dilation(m, size) ==
  LET c == size \div 2
  IN  Mat([i \in DOMAIN m |->
             \E k \in (i - (size - 1 - c)) .. (i + c) : k \in DOMAIN m /\ m[k]])
binary_closing(m, size) == binary_erosion(binary_dilation(m, size), size)
binary_opening(m, size) == binary_dilation(binary_erosion(m, size), size)

cleanMask(m) == binary_opening(binary_closing(m, maxSizeFluctuations), maxSizeFluctuations)

npAny(m) == \E i \in DOMAIN m : m[i]

\* np.flatnonzero(padded[1:] != padded[:-1]) of the mask padded with False
edgeIdx(m) ==
  LET Mk(j) == IF j \in Idx(m) THEN At(m, j) ELSE FALSE
  IN  SortedSeq({j \in 0 .. Len(m) : Mk(j) # Mk(j - 1)})

----------------------------------------------------------------------------
(* identifyLoadHoldUnload, edge lists and cycles (main.py 229-292) *)

ISO   == "ISO"
MULTI == "MULTI"
CSM   == "CSM"

LastN(s, n) == SubSeq(s, Max2(1, Len(s) - n + 1), Len(s))     \* s[-n:]
DropFirst2(s) == SubSeq(s, 3, Len(s))                          \* s[2:]
DropLast2(s)  == SubSeq(s, 1, Len(s) - 2)                      \* s[:-2]

\* main.py 234-236: partial unload-hold-full unload of a drift segment.
\* loadIdx[-1] raises IndexError on an empty loadIdx.
trimDriftUnload(loadIdx, unloadIdx) ==
  IF Len(unloadIdx) = Len(loadIdx) + 2
  THEN IF Len(loadIdx) = 0 THEN [exc |-> "IndexError", unloadIdx |-> unloadIdx]
       ELSE IF \A k \in DOMAIN LastN(unloadIdx, 4) :
                   LastN(unloadIdx, 4)[k] > loadIdx[Len(loadIdx)]
            THEN [exc |-> "none", unloadIdx |-> DropLast2(unloadIdx)]
            ELSE [exc |-> "none", unloadIdx |-> unloadIdx]
  ELSE [exc |-> "none", unloadIdx |-> unloadIdx]

\* main.py 237-239: clean loading front.
\* loadIdx[2] and unloadIdx[0] raise IndexError when the lists are too short.
RECURSIVE cleanLoadingFront(_, _)
cleanLoadingFront(loadIdx, unloadIdx) ==
  IF Len(unloadIdx) < Len(loadIdx)
  THEN IF Len(loadIdx) < 3 \/ Len(unloadIdx) < 1
       THEN [exc |-> "IndexError", loadIdx |-> loadIdx]
       ELSE IF At(loadIdx, 2) < At(unloadIdx, 0)
            THEN cleanLoadingFront(DropFirst2(loadIdx), unloadIdx)
            ELSE [exc |-> "none", loadIdx |-> loadIdx]
  ELSE [exc |-> "none", loadIdx |-> loadIdx]

\* loadIdx[::2][i], loadIdx[1::2][i], unloadIdx[::2][i], unloadIdx[1::2][i]
zipped(loadIdx, unloadIdx, i) ==
  <<At(loadIdx, 2 * i), At(loadIdx, 2 * i + 1), At(unloadIdx, 2 * i), At(unloadIdx, 2 * i + 1)>>
\* the indexing raises IndexError when a list is too short
zipRaises(loadIdx, unloadIdx, i) ==
  2 * i + 1 >= Len(loadIdx) \/ 2 * i + 1 >= Len(unloadIdx)

\* the ordering test without the comparison of loadEnd with unloadStart
orderedNoHold(e) == e[1] < e[2] /\ e[3] < e[4]
\* main.py 266
ordered(e) == e[1] < e[2] /\ e[2] <= e[3] /\ e[3] < e[4]
\* main.py 268
inBounds(e, lenH) == SetMin({e[k] : k \in 1 .. 4}) > 0 /\ SetMax({e[k] : k \in 1 .. 4}) < lenH

\* main.py 265-277, one pass of the loop body for cycle i on the list so far
addCycle(list, e, lenH) ==
  IF ordered(e) /\ inBounds(e, lenH) THEN Append(list, e)
  ELSE IF Len(list) > 0 THEN Append(list, <<>>)
  ELSE list

\* main.py 264-280: the loop over loadIdx[::2]; any exception empties iLHU
RECURSIVE collectCycles(_, _, _, _, _)
collectCycles(loadIdx, unloadIdx, i, list, lenH) ==
  IF 2 * i >= Len(loadIdx) THEN list
  ELSE IF zipRaises(loadIdx, unloadIdx, i) THEN <<>>
  ELSE collectCycles(loadIdx, unloadIdx, i + 1,
                     addCycle(list, zipped(loadIdx, unloadIdx, i), lenH), lenH)

\* main.py 260-263
recordSuccess(success, name, loadIdx, unloadIdx) ==
  IF Len(loadIdx) # Len(unloadIdx) THEN success ELSE Append(success, name)

\* main.py 281-282
methodAfter(m, list) == IF Len(list) > 1 THEN MULTI ELSE m

\* main.py 284-291
driftSegment(unloadIdx, lenP) ==
  IF Len(unloadIdx) < 2 THEN <<-1, -1>>
  ELSE LET iDriftS == At(unloadIdx, 2 * ((Len(unloadIdx) \div 2) - 1) + 1) + 1
           iDriftE == lenP - 1
       IN  IF iDriftS + 1 > iDriftE THEN <<iDriftE - 1, iDriftE>>
           ELSE <<iDriftS, iDriftE>>

----------------------------------------------------------------------------
(* identifyLoadHoldUnload as a whole *)

\* what the call leaves behind when it raises `e` after the arrays were cut:
\* iLHU, iDrift, method and successTest keep their values
raised(e) == [exc |-> e, iLHU |-> <<>>, iDrift |-> <<>>, loadIdx |-> <<>>, unloadIdx |-> <<>>]

\* main.py 180-280 and 284-291 on the arrays left by lines 174-179: what the
\* arrays alone decide (the exception raised, or the cycles and the drift segment)
segmentCore(pp, lenH) ==
  IF Len(pp) < 2
  THEN raised("ValueError")                                    \* np.gradient
  ELSE IF ~(Len(pp) > MinLenCleanup)
  THEN raised("UnboundLocalError")                             \* loadMaskTry
  ELSE
    LET pf         == medfilt(pp)
        rate       == gradient2(pf)
        loadMask0  == rawLoadMask(pf, rate)
        unloadMask0== rawUnloadMask(pf, rate)
        loadMaskTry   == cleanMask(loadMask0)
        unloadMaskTry == cleanMask(unloadMask0)
        useTry     == npAny(loadMaskTry) /\ npAny(unloadMaskTry)
        loadMask   == IF useTry THEN loadMaskTry ELSE loadMask0
        unloadMask == IF useTry THEN unloadMaskTry ELSE unloadMask0
        loadIdx0   == edgeIdx(loadMask)
        unloadIdx0 == edgeIdx(unloadMask)
        trim       == trimDriftUnload(loadIdx0, unloadIdx0)
        front      == cleanLoadingFront(loadIdx0, trim.unloadIdx)
        loadIdx    == front.loadIdx
        unloadIdx  == trim.unloadIdx
    IN  IF trim.exc # "none"
        THEN raised(trim.exc)
        ELSE IF front.exc # "none"
        THEN raised(front.exc)
        ELSE [exc |-> "none",
              iLHU |-> collectCycles(loadIdx, unloadIdx, 0, <<>>, lenH),
              iDrift |-> driftSegment(unloadIdx, Len(pp)),
              loadIdx |-> loadIdx,
              unloadIdx |-> unloadIdx]

\* the fields identifyLoadHoldUnload leaves: nothing is assigned when it raises
segment(core, m, success, name, oldLHU, oldDrift, oldEdges) ==
  IF core.exc # "none"
  THEN [exc |-> core.exc, iLHU |-> oldLHU, iDrift |-> oldDrift, method |-> m,
        successTest |-> success, edges |-> oldEdges]
  ELSE [exc |-> "none",
        iLHU |-> core.iLHU,
        iDrift |-> core.iDrift,
        method |-> methodAfter(m, core.iLHU),
        successTest |-> recordSuccess(success, name, core.loadIdx, core.unloadIdx),
        edges |-> [loadIdx |-> core.loadIdx, unloadIdx |-> core.unloadIdx]]

\* identifyLoadHoldUnload(self), non-CSM path
identifyLoadHoldUnloadCall ==
  /\ method # CSM
  /\ \E keep \in {keepMask(t)} :
     \E p1 \in {dropTooClose(p, keep)}, h1 \in {dropTooClose(h, keep)} :
       /\ t' = dropTooClose(t, keep)
       /\ p' = p1
       /\ h' = h1
       /\ IF valid = None
          THEN \* self.valid[1:] raises TypeError once t, p and h are cut
               /\ valid' = valid
               /\ exc' = "TypeError"
               /\ UNCHANGED <<iLHU, iDrift, method, successTest, edges>>
          ELSE \E r \in {segment(segmentCore(p1, Len(h1)), method, successTest, testName,
                                 iLHU, iDrift, edges)} :
                 /\ valid' = Mask(dropTooClose(valid.mask, keep))
                 /\ exc' = r.exc
                 /\ iLHU' = r.iLHU
                 /\ iDrift' = r.iDrift
                 /\ method' = r.method
                 /\ successTest' = r.successTest
                 /\ edges' = r.edges
  /\ lastOp' = "identifyLoadHoldUnload"
  /\ calls' = calls + 1
  /\ UNCHANGED <<results, config, tests, hist>>

identifyLoadHoldUnload == identifyLoadHoldUnloadCall /\ UNCHANGED <<forLoop, cal>>

----------------------------------------------------------------------------
(* The model parameters: definitions.py and Indentation.fillVendorDefaults *)

\* the keys of _DefaultVendorDependent[vendor]
VendorKeys == {"unloadPMax", "unloadPMin", "relForceRateNoise"}

\* definitions.py:39-53, the vendor-dependent entries of _DefaultModel, beta and nonMetal
DefaultModel ==
  [unloadPMax |-> Frac(99, 100), unloadPMin |-> Frac(5, 10), relForceRateNoise |-> Frac(2, 100),
   beta |-> Frac(3, 4), nonMetal |-> Frac(1, 1)]

vendorDefaults(pMax, pMin, noise) ==
  [unloadPMax |-> pMax, unloadPMin |-> pMin, relForceRateNoise |-> noise]

\* definitions.py:55-66
DefaultVendorDependent ==
  [Agilent            |-> vendorDefaults(Frac(999, 1000), Frac(5, 10),   Frac(2, 100)),
   Hysitron           |-> vendorDefaults(Frac(95, 100),   Frac(4, 10),   Frac(2, 10)),
   Micromaterials     |-> vendorDefaults(Frac(99, 100),   Frac(5, 10),   Frac(2, 100)),
   FischerScope       |-> vendorDefaults(Frac(95, 100),   Frac(21, 100), Frac(1, 100)),
   Hdf5               |-> vendorDefaults(Frac(99, 100),   Frac(5, 10),   Frac(2, 100)),
   AgilentHDF5        |-> vendorDefaults(Frac(99, 100),   Frac(5, 10),   Frac(2, 100)),
   KLAHDF5            |-> vendorDefaults(Frac(99, 100),   Frac(5, 10),   Frac(7, 1000)),
   FischerScopeHDF5   |-> vendorDefaults(Frac(99, 100),   Frac(21, 100), Frac(2, 100)),
   MicromaterialsHDF5 |-> vendorDefaults(Frac(99, 100),   Frac(5, 10),   Frac(2, 100)),
   HysitronHDF5       |-> vendorDefaults(Frac(99, 100),   Frac(5, 10),   Frac(4, 100))]

\* the vendors that __init__ detects from the file name (__init__.py:91-124)
DetectedVendors == {"Agilent", "Hysitron", "Micromaterials", "FischerScope", "Hdf5"}

\* dict.update
update(dict, other) ==
  [k \in DOMAIN dict \cup DOMAIN other |-> IF k \in DOMAIN other THEN other[k] ELSE dict[k]]

\* __init__.py:133-137, the loop body for one key
fillKey(dict, choice, defaults, key) ==
  IF key \in DOMAIN choice THEN update(dict, [k \in {key} |-> choice[key]])
  ELSE IF key \notin DOMAIN dict THEN update(dict, [k \in {key} |-> defaults[key]])
  ELSE dict

\* __init__.py:132-139
RECURSIVE fillVendorDefaults(_, _, _, _)
fillVendorDefaults(dict, choice, v, keys) ==
  IF v \notin DOMAIN DefaultVendorDependent \/ keys = {} THEN dict
  ELSE LET key == CHOOSE k \in keys : TRUE
       IN  fillVendorDefaults(fillKey(dict, choice, DefaultVendorDependent[v], key),
                              choice, v, keys \ {key})

\* the model of an object of `v` without user choice, in a fresh process
vendorModel(v) == fillVendorDefaults(DefaultModel, <<>>, v, VendorKeys)

----------------------------------------------------------------------------
(* Test records: a trace is a list of runs of constant force rate *)

Slopes  == {-1, 0, 1}
RunLens == {ShortRun, LongRun}
Run     == [len : RunLens, dp : Slopes]
\* consecutive runs differ in rate (two runs of one rate are one longer run)
Traces  == UNION {{tr \in [1 .. k -> Run] :
                     \A j \in 1 .. (k - 1) : tr[j].dp # tr[j + 1].dp} : k \in 1 .. MaxRuns}

\* the samples of a trace that starts from `last`
RECURSIVE samples(_, _)
samples(runs, last) ==
  IF runs = <<>> THEN <<>>
  ELSE LET r == Head(runs)
       IN  [k \in 1 .. r.len |-> last + k * r.dp]
             \o samples(Tail(runs), last + r.len * r.dp)

\* depth follows force: it grows twice as fast on loading as it recovers
depthRuns(runs) == [k \in DOMAIN runs |->
                      [len |-> runs[k].len,
                       dp  |-> IF runs[k].dp > 0 THEN 2 * runs[k].dp ELSE runs[k].dp]]

InitRecord(runs, p0) ==
  /\ p = <<p0>> \o samples(runs, p0)
  /\ h = <<0>> \o samples(depthRuns(runs), 0)
  /\ t = [i \in 1 .. (Len(p)) |-> i - 1]
  /\ valid = Mask([i \in 1 .. (Len(p)) |-> TRUE])
  /\ iLHU = << <<-1, -1, -1, -1>> >>
  /\ iDrift = <<-1, -1>>
  /\ method = ISO
  /\ successTest = <<>>
  /\ testName = "Test 1"
  /\ testList = <<>>
  /\ allTestList = <<"Test 1">>
  /\ file = <<>>
  /\ newFileRead = TRUE
  /\ loop = "none"
  /\ visited = <<>>
  /\ cal = NoCal
  /\ slope = Arr(<<>>) /\ k2p = Arr(<<>>) /\ modulusRed = Arr(<<>>) /\ modulus = Arr(<<>>)
  /\ Ac = Arr(<<>>) /\ hc = Arr(<<>>) /\ hardness = Arr(<<>>)
  /\ metaUser = NoMeta
  /\ tip = [compliance |-> [value |-> 0], prefactors |-> Prefactors(<<>>, "perfect")]
  /\ evaluateSAtMax = TRUE
  /\ model = vendorModel("Agilent")
  /\ modelUserChoice = <<>>
  /\ vendor = "Agilent"
  /\ exc = "none"
  /\ lastOp = "load"
  /\ calls = 0
  /\ edges = [loadIdx |-> <<>>, unloadIdx |-> <<>>]
  /\ hist = NoHist

\* longer traces: a second cycle that is out of order (unload, then load) or
\* that ends with the last sample, after a first cycle that is in order; and
\* two loading segments followed by two unloading segments
Rn(len, dp) == [len |-> len, dp |-> dp]
LongTraces ==
  { <<Rn(LongRun, 1), Rn(LongRun, -1), Rn(LongRun, 0), Rn(LongRun, -1), Rn(LongRun, 1)>>,
    <<Rn(LongRun, 0), Rn(ShortRun, 1), Rn(LongRun, -1), Rn(ShortRun, 1), Rn(LongRun, -1)>>,
    <<Rn(LongRun, 1), Rn(LongRun, 0), Rn(LongRun, 1), Rn(LongRun, -1), Rn(LongRun, 0),
      Rn(LongRun, -1)>> }

(* Segmentation of a freshly loaded test record *)
InitSeg == \E runs \in Traces \cup LongTraces, p0 \in {0, PBase} : InitRecord(runs, p0)
NextSeg == lastOp = "load" /\ identifyLoadHoldUnload
SpecSeg == InitSeg /\ [][NextSeg]_vars

----------------------------------------------------------------------------
(* stiffnessFromUnloading (theory.py 110-211) *)

unloadPMaxNum == 99     \* unloadPMax = 0.99 = 99/100
unloadPMaxDen == 100
unloadPMinNum == 5      \* unloadPMin = 0.5 = 5/10
unloadPMinDen == 10


pyIndex(i, n) == IF i < 0 THEN i + n ELSE i                        \* a[i]
indexError(i, n) == pyIndex(i, n) < 0 \/ pyIndex(i, n) >= n
sliceBound(i, n) == IF i < 0 THEN Max2(i + n, 0) ELSE Min2(i, n)   \* a[i:j]

\* mask = maskSegment & maskForce, as the set of its True indices
fitWindow(pp, cycle) ==
  LET n    == Len(pp)
      pEnd == At(pp, pyIndex(cycle[2], n))
  IN  {k \in sliceBound(cycle[3], n) .. (sliceBound(cycle[4] + 1, n) - 1) :
         /\ At(pp, k) * unloadPMaxDen < pEnd * unloadPMaxNum
         /\ At(pp, k) * unloadPMinDen > pEnd * unloadPMinNum}

\* curve_fit raises before it iterates unless lb < ub and p0 lies in the bounds:
\* bounds of hf are [0, max(min(h[mask]), hf0)] with hf0 = h[mask][-1]/2
fitFeasible(hh, win) ==
  LET hLast == At(hh, SetMax(win))
      hMin  == SetMin({At(hh, k) : k \in win})
  IN  hLast >= 0 /\ Max2(2 * hMin, hLast) > 0

\* the optimum a converged fit returns: B, hf, m inside the bounds
FitResult == [B |-> 2, hf |-> 0, m |-> 2]

RECURSIVE intPow(_, _)
intPow(x, e) == IF e = 0 THEN 1 ELSE x * intPow(x, e - 1)

\* B of the fallback, through the first and the last selected sample at the origin
secantOrigin(pp, hh, win) == Frac(At(pp, SetMax(win)), At(hh, SetMax(win)))

\* B of the fallback: secant through the first and the last selected sample
secant(pp, hh, win) ==
  Frac(At(pp, SetMax(win)) - At(pp, SetMin(win)), At(hh, SetMax(win)) - At(hh, SetMin(win)))

\* the sample marked in validMask, at the last selected sample
validSampleLast(cycle, win, n, atMax) == IF atMax THEN pyIndex(cycle[3], n) ELSE SetMax(win)

\* the sample marked in validMask
validSample(cycle, win, n, atMax) == IF atMax THEN pyIndex(cycle[3], n) ELSE SetMin(win)

\* lines 153-192 for one cycle with a non-empty window
cycleStiffness(pp, hh, cycle, win, fitFails, atMax) ==
  LET fitted == fitFeasible(hh, win) /\ ~fitFails
      at     == validSample(cycle, win, Len(pp), atMax)
  IN  [stiffness   |-> IF fitted
                       THEN Frac(FitResult.B * FitResult.m
                                   * intPow(At(hh, at) - FitResult.hf, FitResult.m - 1), 1)
                       ELSE secant(pp, hh, win),       \* m = 1: math.pow(x, 0.) = 1
       validIdx    |-> at,
       powerlawFit |-> fitted,
       window      |-> <<SetMin(win), SetMax(win)>>]

noStiffness == [stiffness |-> <<>>, validIdx |-> {}, powerlawFit |-> <<>>, windows |-> <<>>]

sfuResult(e, isNone, acc, k, n) ==
  [exc |-> e, none |-> isNone, stiffness |-> acc.stiffness,
   validMask |-> [i \in 1 .. n |-> (i - 1) \in acc.validIdx],
   powerlawFit |-> acc.powerlawFit, windows |-> acc.windows, at |-> k]

\* the loop over self.iLHU from cycle k on; fitFails[k] tells whether curve_fit
\* fails on cycle k when it is given feasible bounds
RECURSIVE stiffnessLoop(_, _, _, _, _, _, _)
stiffnessLoop(pp, hh, cyc, k, fitFails, atMax, acc) ==
  IF k > Len(cyc) THEN sfuResult("none", FALSE, acc, 0, Len(pp))
  ELSE IF Len(cyc[k]) # 4 THEN sfuResult("ValueError", FALSE, acc, k, Len(pp))     \* unpacking
  ELSE IF indexError(cyc[k][2], Len(pp)) THEN sfuResult("IndexError", FALSE, acc, k, Len(pp))
  ELSE LET win == fitWindow(pp, cyc[k])
       IN  IF win = {} THEN sfuResult("none", TRUE, acc, k, Len(pp))   \* return None, ...
           ELSE LET c == cycleStiffness(pp, hh, cyc[k], win, fitFails[k], atMax)
                IN  stiffnessLoop(pp, hh, cyc, k + 1, fitFails, atMax,
                      [stiffness   |-> Append(acc.stiffness, c.stiffness),
                       validIdx    |-> acc.validIdx \cup {c.validIdx},
                       powerlawFit |-> Append(acc.powerlawFit, c.powerlawFit),
                       windows     |-> Append(acc.windows, c.window)])

stiffnessFromUnloading(pp, hh, cyc, fitFails, atMax) ==
  stiffnessLoop(pp, hh, cyc, 1, fitFails, atMax, noStiffness)

----------------------------------------------------------------------------
(* analyse (main.py 133-157) with calcYoungsModulus, calcHardness, saveToUserMeta *)

\* numpy broadcasting of two 1-D arrays of lengths a and b: the length of the
\* result, or -1 when the shapes do not match
broadcast(a, b) == IF a = b THEN a ELSE IF a = 1 THEN b ELSE IF b = 1 THEN a ELSE -1
bcAt(s, i) == IF Len(s) = 1 THEN s[1] ELSE s[i]

\* self.p[self.valid]
masked(a, m) == Compress(a, m)

\* a result of the Oliver-Pharr evaluation of one sample, kept as the term
\* name(stiffness, pMax, h, prefactors)
term(name, S, P, H, n, pre) ==
  [i \in 1 .. n |-> [f |-> name, S |-> bcAt(S, i), pMax |-> bcAt(P, i), h |-> bcAt(H, i),
                     tip |-> pre]]

segmentNames == <<"1", "2", "3", "4", "5", "6">>

analyseBody(fitFails) ==
  \E hCorr \in {Mat([i \in DOMAIN h |-> h[i] - tip.compliance.value * p[i]])} :
  \E r \in {stiffnessFromUnloading(p, hCorr, iLHU, fitFails, evaluateSAtMax)} :
  \E pMax \in {masked(p, r.validMask)}, hMax \in {masked(hCorr, r.validMask)} :
  \E len \in {broadcast(Len(r.stiffness), Len(pMax))} :
    /\ h' = hCorr
    /\ hist' = [analysed |-> TRUE, raisedAt |-> IF r.exc # "none" THEN r.at ELSE 0,
                emptyWindow |-> IF r.none THEN r.at ELSE 0,
                skipped |-> r.exc = "none" /\ (r.none \/ len < 0),
                powerlawFit |-> r.powerlawFit, windows |-> r.windows]
    /\ exc' = r.exc
    /\ IF r.exc # "none"
       THEN UNCHANGED <<valid, results>>
       ELSE IF r.none
       THEN \* slope = np.array(None); the TypeError of line 149 is swallowed
            /\ slope' = None
            /\ valid' = None
            /\ UNCHANGED <<k2p, modulusRed, modulus, Ac, hc, hardness, metaUser>>
       ELSE /\ slope' = Arr(r.stiffness)
            /\ valid' = Mask(r.validMask)
            /\ IF len < 0
               THEN \* the shapes of line 149 do not match: the ValueError is swallowed
                    UNCHANGED <<k2p, modulusRed, modulus, Ac, hc, hardness, metaUser>>
               ELSE LET S   == r.stiffness
                        pre == tip.prefactors
                    IN  /\ k2p' = Arr(term("k2p", S, pMax, hMax, len, pre))
                        /\ modulusRed' = Arr(term("modulusRed", S, pMax, hMax, len, pre))
                        /\ Ac' = Arr(term("Ac", S, pMax, hMax, len, pre))
                        /\ hc' = Arr(term("hc", S, pMax, hMax, len, pre))
                        /\ modulus' = Arr(term("modulus", S, pMax, hMax, len, pre))
                        /\ hardness' = Arr(term("hardness", S, pMax, hMax, len, pre))
                        /\ metaUser' =
                             [S |-> S, hMax |-> hMax, pMax |-> pMax,
                              modulusRed |-> term("modulusRed", S, pMax, hMax, len, pre),
                              A |-> term("Ac", S, pMax, hMax, len, pre),
                              hc |-> term("hc", S, pMax, hMax, len, pre),
                              E |-> term("modulus", S, pMax, hMax, len, pre),
                              H |-> term("hardness", S, pMax, hMax, len, pre),
                              segment |-> SubSeq(segmentNames, 1, Len(S))]

analyseCall(fitFails) ==
  /\ method # CSM
  /\ IF tip.compliance = None
     THEN \* None*self.p raises TypeError in line 142
          /\ exc' = "TypeError"
          /\ hist' = NoHist
          /\ UNCHANGED <<h, valid, results>>
     ELSE analyseBody(fitFails)
  /\ lastOp' = "analyse"
  /\ calls' = calls + 1
  /\ UNCHANGED <<t, p, cycles, tests>>

analyse(fitFails) == analyseCall(fitFails) /\ UNCHANGED <<config, forLoop, cal>>

----------------------------------------------------------------------------
(* The data file and its loader (input.py loadAgilent, nextAgilentTest) *)

DepthUnit == 1000       \* self.h /= 1.e3
TestNames == <<"Test 1", "Test 2", "Test 3", "Test 4", "Test 5">>
sheetOf(name) == CHOOSE k \in DOMAIN TestNames : TestNames[k] = name

\* the traces a sheet of the file may hold
Corpus ==
  << [p0 |-> 0,     runs |-> <<Rn(LongRun, 0), Rn(LongRun, 1), Rn(LongRun, -1), Rn(LongRun, 0)>>],
     [p0 |-> PBase, runs |-> <<Rn(LongRun, 0), Rn(LongRun, 1), Rn(LongRun, -1), Rn(LongRun, 0)>>],
     [p0 |-> 0,     runs |-> <<Rn(LongRun, 1), Rn(LongRun, -1), Rn(LongRun, 1), Rn(LongRun, -1)>>],
     [p0 |-> PBase, runs |-> <<Rn(LongRun, 1), Rn(LongRun, -FastRate), Rn(LongRun, 1), Rn(LongRun, -1)>>],
     [p0 |-> PBase, runs |-> <<Rn(LongRun, 1), Rn(LongRun, -1), Rn(LongRun, 1), Rn(LongRun, -FastRate)>>],
     [p0 |-> 0,     runs |-> <<Rn(LongRun, 0), Rn(LongRun, 0), Rn(LongRun, 0), Rn(LongRun, 0)>>],
     [p0 |-> PBase, runs |-> <<Rn(LongRun, 1), Rn(LongRun, -FastRate), Rn(LongRun, 0),
                               Rn(LongRun, -1), Rn(LongRun, 1)>>],
     [p0 |-> 0,     runs |-> <<Rn(ShortRun, 1)>>],
     [p0 |-> 0,     runs |-> <<Rn(LongRun, 1), Rn(LongRun, -1), Rn(LongRun, 1), Rn(LongRun, -1),
                               Rn(LongRun, 1), Rn(LongRun, -1)>>] >>

\* the columns of a sheet: depth is recorded in nm
sheet(c) ==
  LET pp == <<c.p0>> \o samples(c.runs, c.p0)
  IN  [p |-> pp,
       h |-> [i \in 1 .. Len(pp) |-> DepthUnit * (<<0>> \o samples(depthRuns(c.runs), 0))[i]],
       t |-> [i \in 1 .. Len(pp) |-> i - 1]]

\* nextAgilentTest up to the segmentation of the arrays it has read
readSheet(c) ==
  LET raw  == sheet(c)
      keep == keepMask(raw.t)
      p1   == dropTooClose(raw.p, keep)
      h1   == dropTooClose(raw.h, keep)
  IN  [t |-> dropTooClose(raw.t, keep), p |-> p1, h |-> h1,
       valid |-> Mask([i \in 1 .. Len(p1) |-> TRUE]),
       core |-> segmentCore(p1, Len(h1))]

Sheets == [k \in DOMAIN Corpus |-> readSheet(Corpus[k])]

\* the fields of the object after nextAgilentTest has read sheet `name`
loadedTest(sh, name, m, success, oldLHU, oldDrift, oldEdges) ==
  LET r == segment(sh.core, m, success, name, oldLHU, oldDrift, oldEdges)
  IN  [t |-> sh.t, p |-> sh.p, valid |-> sh.valid,
       h |-> IF r.exc = "none" THEN [i \in DOMAIN sh.h |-> sh.h[i] \div DepthUnit] ELSE sh.h,
       seg |-> r]

\* nextAgilentTest(self) reading from the list of tests `list`
nextAgilentTest(list) ==
  IF Len(list) = 0
  THEN /\ exc' = "none"
       /\ testList' = list
       /\ UNCHANGED <<arrays, cycles, testName>>
  ELSE \E l \in {loadedTest(Sheets[file[sheetOf(Head(list))]], Head(list), method, successTest,
                             iLHU, iDrift, edges)} :
           /\ testName' = Head(list)
           /\ testList' = Tail(list)
           /\ t' = l.t /\ p' = l.p /\ h' = l.h /\ valid' = l.valid
           /\ exc' = l.seg.exc
           /\ iLHU' = l.seg.iLHU
           /\ iDrift' = l.seg.iDrift
           /\ method' = l.seg.method
           /\ successTest' = l.seg.successTest
           /\ edges' = l.seg.edges

\* nextTest(self) for an Agilent file with the default surface find
nextTestCall ==
  /\ nextAgilentTest(testList)
  /\ lastOp' = "nextTest"
  /\ calls' = calls + 1
  /\ UNCHANGED <<results, allTestList, file>>

nextTest == nextTestCall /\ UNCHANGED <<config, newFileRead, forLoop, cal, hist>>

\* restartFile(self)
restartFileCall ==
  /\ nextAgilentTest(allTestList)
  /\ lastOp' = "restartFile"
  /\ calls' = calls + 1
  /\ UNCHANGED <<results, allTestList, file>>

\* Indentation(fileName): the constructor loads and segments the first sheet
\* a file holds up to MaxTests consecutive traces of the corpus
Files == {[i \in 1 .. n |-> ((k + i - 2) % Len(Corpus)) + 1] :
            k \in DOMAIN Corpus, n \in 1 .. MaxTests}

InitFile(f, compliance, atMax) ==
  LET l == loadedTest(Sheets[f[1]], TestNames[1], ISO, <<>>, << <<-1, -1, -1, -1>> >>,
                      <<-1, -1>>, [loadIdx |-> <<>>, unloadIdx |-> <<>>])
  IN  /\ l.seg.exc = "none"
      /\ file = f
      /\ allTestList = SubSeq(TestNames, 1, Len(f))
      /\ testList = SubSeq(TestNames, 2, Len(f))
      /\ testName = TestNames[1]
      /\ newFileRead = TRUE
      /\ t = l.t /\ p = l.p /\ h = l.h /\ valid = l.valid
      /\ iLHU = l.seg.iLHU
      /\ iDrift = l.seg.iDrift
      /\ method = l.seg.method
      /\ successTest = l.seg.successTest
      /\ edges = l.seg.edges
      /\ slope = Arr(<<>>) /\ k2p = Arr(<<>>) /\ modulusRed = Arr(<<>>) /\ modulus = Arr(<<>>)
      /\ Ac = Arr(<<>>) /\ hc = Arr(<<>>) /\ hardness = Arr(<<>>)
      /\ metaUser = NoMeta
      /\ tip = [compliance |-> Num(compliance), prefactors |-> Prefactors(<<>>, "perfect")]
      /\ evaluateSAtMax = atMax
      /\ model = vendorModel("Agilent")
      /\ modelUserChoice = <<>>
      /\ vendor = "Agilent"
      /\ exc = "none"
      /\ lastOp = "load"
      /\ calls = 0
      /\ loop = "none"
      /\ visited = <<>>
      /\ cal = NoCal
      /\ hist = NoHist

(* Analysis of the tests of a file *)
Init == \E f \in Files, c \in {0, MaxCompliance}, atMax \in BOOLEAN : InitFile(f, c, atMax)

Next ==
  /\ calls < MaxCalls
  /\ \/ identifyLoadHoldUnload
     \/ \E fitFails \in [1 .. Len(iLHU) -> BOOLEAN] : analyse(fitFails)
     \/ nextTest

Spec == Init /\ [][Next]_vars

----------------------------------------------------------------------------
(* `for testName in indentation: analyse()` (__init__.py 146-174) *)

\* __iter__(self), called once when the for statement starts
forIter ==
  /\ loop = "none"
  /\ restartFileCall
  /\ newFileRead' = TRUE
  /\ loop' = IF exc' = "none" THEN "next" ELSE "raised"
  /\ visited' = <<>>
  /\ UNCHANGED <<config, cal, hist>>

\* __next__(self), called before every pass through the body
forNext ==
  /\ loop = "next"
  /\ IF Len(testList) > 0
     THEN IF newFileRead
          THEN /\ newFileRead' = FALSE
               /\ exc' = "none"
               /\ lastOp' = "__next__"
               /\ calls' = calls + 1
               /\ visited' = Append(visited, testName)
               /\ loop' = "body"
               /\ UNCHANGED <<arrays, cycles, results, testName, testList, allTestList, file>>
          ELSE \* reply = self.nextTest() is the True that the segmentation returns
               /\ nextTestCall
               /\ visited' = IF exc' = "none" THEN Append(visited, testName') ELSE visited
               /\ loop' = IF exc' = "none" THEN "body" ELSE "raised"
               /\ UNCHANGED newFileRead
     ELSE \* raise StopIteration
          /\ loop' = "done"
          /\ exc' = "none"
          /\ lastOp' = "__next__"
          /\ calls' = calls + 1
          /\ UNCHANGED <<arrays, cycles, results, tests, visited>>
  /\ UNCHANGED <<config, cal, hist>>

\* the body of the loop
forBody(fitFails) ==
  /\ loop = "body"
  /\ analyseCall(fitFails)
  /\ loop' = IF exc' = "none" THEN "next" ELSE "raised"
  /\ UNCHANGED <<config, visited, cal>>

NextIter ==
  \/ forIter
  \/ forNext
  \/ \E fitFails \in [1 .. Len(iLHU) -> BOOLEAN] : forBody(fitFails)

SpecIter == Init /\ [][NextIter]_vars

----------------------------------------------------------------------------
(* calibration (calibration.py 10-127) and calibrateStiffness (130-227) of a *)
(* file of non-CSM tests, with the default critDepthStiffness, critForce,    *)
(* and critDepthTip                                                           *)
(* self.onlyLoadingSegment and self.beta, which calibration reads, are       *)
(* attributes the loader package defines (tests/testAgilent_xls.py runs the  *)
(* whole function on a calibration file).                                    *)

critDepthStiffness == 1
critForce == 1
critDepthTip == 0
PolyfitMinPoints == 3   \* np.polyfit(x, y, 1, cov=True) raises with len(x) <= 2

\* calibration.py:86-89
appendix(constantTerm) == IF constantTerm THEN "isoPlusConstant" ELSE "iso"

\* the orders of the parameters added after m0, with order 0 added once more
higherOrdersFromZero(n) == 0 .. (n - 1)
\* calibration.py:98, range(1,numPolynomial)
higherOrders(n) == 1 .. (n - 1)

\* calibration.py:96-102: the lmfit.Parameters m0, m1, ..., c with their initial
\* value and their bounds
parameter(value, min, max) == [value |-> value, min |-> min, max |-> max]
fitParameters(n, constantTerm) ==
  LET orders == SortedSeq(higherOrders(n))
  IN  <<parameter(Frac(243, 10), Frac(10, 1), Frac(60, 1))>>
      \o [k \in DOMAIN orders |->
            LET startVal == intPow(100, orders[k])
            IN  parameter(Frac(startVal, 1000), Frac(-startVal * 100, 1), Frac(startVal * 100, 1))]
      \o (IF constantTerm THEN <<parameter(Frac(20, 1), Frac(1, 2), Frac(300, 1))>> ELSE <<>>)

\* the values lmfit.minimize may return: every parameter within its bounds
\* (at its lower bound, at its initial value or at its upper bound)
fitResults(params) ==
  {[k \in DOMAIN params |-> params[k][c[k]]] :
     c \in [DOMAIN params -> {"min", "value", "max"}]}

\* the prefactors that fitFunct writes when lmfit.minimize evaluates it with the
\* initial parameters (calibration.py:91), and those of the returned fit
\* (calibration.py:105)
trialPrefactors ==
  LET params == fitParameters(cal.numPolynomial, cal.constantTerm)
  IN  Prefactors([k \in DOMAIN params |-> params[k].value], appendix(cal.constantTerm))
fittedPrefactors == cal.result

\* a loop that leaves after the first test, whatever testList holds
loopEndsAtOnce(list) == TRUE
\* `if not self.testList: break` (calibration.py:180) and
\* `if len(self.testList)==0: break` (calibration.py:53)
loopEnds(list) == Len(list) = 0

\* the calls of self.analyse() inside the loops of both stages, followed by the
\* lines that collect self.metaUser
calAnalyse(fitFails, stage, more, fit) ==
  /\ cal.pc = stage
  /\ analyseCall(fitFails)
  /\ IF exc' # "none"
     THEN cal' = [cal EXCEPT !.pc = "raised", !.failedAt = stage]
     ELSE IF metaUser' = NoMeta
     THEN \* self.metaUser['pMax_mN'] raises KeyError
          cal' = [cal EXCEPT !.pc = "raised", !.failedAt = stage]
     ELSE cal' = [cal EXCEPT !.pAll = cal.pAll \o metaUser'.pMax,
                             !.hAll = cal.hAll \o metaUser'.hMax,
                             !.sAll = cal.sAll \o metaUser'.S,
                             !.tests = Append(cal.tests, testName),
                             !.pc = IF loopEnds(testList) THEN fit ELSE more]
  /\ UNCHANGED <<config, forLoop>>

\* self.nextTest() inside the loops of both stages
calNextTest(stage, back) ==
  /\ cal.pc = stage
  /\ nextTestCall
  /\ cal' = IF exc' = "none" THEN [cal EXCEPT !.pc = back]
            ELSE [cal EXCEPT !.pc = "raised", !.failedAt = stage]
  /\ UNCHANGED <<config, newFileRead, forLoop, hist>>

\* calibration(self) is called
calibration ==
  /\ cal.pc = "idle"
  /\ \E n \in 1 .. MaxPolynomial, constantTerm \in BOOLEAN :
       cal' = [NoCal EXCEPT !.pc = "stiffness.analyse", !.tipBefore = tip,
                            !.numPolynomial = n, !.constantTerm = constantTerm,
                            !.critDepth = critDepthStiffness, !.critForce = critForce]
  /\ lastOp' = "calibration"
  /\ calls' = calls + 1
  /\ UNCHANGED <<arrays, cycles, results, config, tests, forLoop, exc, hist>>

\* calibrateStiffness, lines 183-204: mask, polyfit, self.tip.compliance
calibrateStiffnessFit ==
  /\ cal.pc = "stiffness.fit"
  /\ LET mask == {i \in DOMAIN cal.hAll :
                    cal.hAll[i] > cal.critDepth /\ cal.pAll[i] > cal.critForce}
     IN  IF mask = {}
         THEN \* return None
              /\ cal' = [cal EXCEPT !.pc = "tip.restart", !.frameCompliance = None]
              /\ exc' = "none"
              /\ UNCHANGED tip
         ELSE IF Cardinality(mask) < PolyfitMinPoints
         THEN /\ cal' = [cal EXCEPT !.pc = "raised", !.failedAt = "stiffness.fit"]
              /\ exc' = "ValueError"
              /\ UNCHANGED tip
         ELSE \E c \in {0, MaxCompliance} :
                /\ tip' = [tip EXCEPT !.compliance = Num(c)]
                /\ cal' = [cal EXCEPT !.pc = "tip.restart", !.frameCompliance = Num(c)]
                /\ exc' = "none"
  /\ lastOp' = "calibrateStiffness"
  /\ UNCHANGED <<arrays, cycles, results, evaluateSAtMax, model, modelUserChoice, vendor, tests,
               forLoop, calls, hist>>

\* calibration, lines 31-36: restartFile, self.tip.compliance, method restored
calibrationRestart ==
  /\ cal.pc = "tip.restart"
  /\ \E l \in {loadedTest(Sheets[file[1]], allTestList[1], method, successTest,
                          iLHU, iDrift, edges)} :
       /\ testName' = allTestList[1]
       /\ testList' = Tail(allTestList)
       /\ t' = l.t /\ p' = l.p /\ h' = l.h /\ valid' = l.valid
       /\ exc' = l.seg.exc
       /\ iLHU' = l.seg.iLHU
       /\ iDrift' = l.seg.iDrift
       /\ successTest' = l.seg.successTest
       /\ edges' = l.seg.edges
       /\ IF l.seg.exc = "none"
          THEN /\ tip' = [tip EXCEPT !.compliance = cal.frameCompliance]
               /\ method' = method
               /\ cal' = [cal EXCEPT !.pc = "tip.analyse", !.pAll = <<>>, !.hAll = <<>>,
                                     !.sAll = <<>>, !.tests = <<>>]
          ELSE /\ tip' = tip
               /\ method' = l.seg.method
               /\ cal' = [cal EXCEPT !.pc = "raised", !.failedAt = "tip.restart"]
  /\ lastOp' = "restartFile"
  /\ UNCHANGED <<results, evaluateSAtMax, model, modelUserChoice, vendor, allTestList, file,
               newFileRead, forLoop, calls, hist>>

\* calibration, lines 58-105: mask, fitFunct, lmfit.minimize, self.tip.prefactors
calibrationFit ==
  /\ cal.pc = "tip.fit"
  /\ LET mask   == {i \in DOMAIN cal.hAll : cal.hAll[i] > critDepthTip}
         params == fitParameters(cal.numPolynomial, cal.constantTerm)
     IN  \E converges \in BOOLEAN :
           IF Cardinality(mask) >= Len(params) /\ converges
           THEN \E values \in fitResults(params) :
                  /\ cal' = [cal EXCEPT !.pc = "done",
                                        !.result = Prefactors(values, appendix(cal.constantTerm))]
                  /\ tip' = [tip EXCEPT !.prefactors = cal'.result]
                  /\ exc' = "none"
           ELSE \* minimize raises after fitFunct has been evaluated
                /\ tip' = [tip EXCEPT !.prefactors = trialPrefactors]
                /\ cal' = [cal EXCEPT !.pc = "raised", !.failedAt = "tip.fit"]
                /\ exc' = IF Cardinality(mask) >= Len(params) THEN "ValueError" ELSE "TypeError"
  /\ lastOp' = "calibration"
  /\ UNCHANGED <<arrays, cycles, results, evaluateSAtMax, model, modelUserChoice, vendor, tests,
               forLoop, calls, hist>>

NextCal ==
  \/ calibration
  \/ \E fitFails \in [1 .. Len(iLHU) -> BOOLEAN] :
       calAnalyse(fitFails, "stiffness.analyse", "stiffness.next", "stiffness.fit")
  \/ calNextTest("stiffness.next", "stiffness.analyse")
  \/ calibrateStiffnessFit
  \/ calibrationRestart
  \/ \E fitFails \in [1 .. Len(iLHU) -> BOOLEAN] :
       calAnalyse(fitFails, "tip.analyse", "tip.next", "tip.fit")
  \/ calNextTest("tip.next", "tip.analyse")
  \/ calibrationFit

SpecCal == Init /\ [][NextCal]_vars

\* calibrateStiffness(critDepth, critForce) is called by the user on the
\* object as it is: no test is loaded, the loop starts with self.analyse()
calibrateStiffness(critDepth0, critForce0) ==
  /\ cal.pc = "idle"
  /\ cal' = [NoCal EXCEPT !.pc = "stiffness.analyse", !.tipBefore = tip,
                          !.critDepth = critDepth0, !.critForce = critForce0]
  /\ lastOp' = "calibrateStiffness()"
  /\ calls' = calls + 1
  /\ UNCHANGED <<arrays, cycles, results, config, tests, forLoop, exc, hist>>

\* calibrateStiffness on a file of which some tests may have been read with
\* nextTest; the thresholds are the defaults of calibration or deeper
NextStiff ==
  \/ cal.pc = "idle" /\ calls < MaxCalls /\ nextTest
  \/ \E critDepth0 \in {critDepthStiffness, 100, 200} : calibrateStiffness(critDepth0, critForce)
  \/ \E fitFails \in [1 .. Len(iLHU) -> BOOLEAN] :
       calAnalyse(fitFails, "stiffness.analyse", "stiffness.next", "stiffness.fit")
  \/ calNextTest("stiffness.next", "stiffness.analyse")
  \/ calibrateStiffnessFit

SpecStiff == Init /\ [][NextStiff]_vars

----------------------------------------------------------------------------
(* Construction of Indentation objects, one after the other in one process   *)
(* (__init__.py 46-95 and fillVendorDefaults), up to the loading of the file *)

\* values a user passes in `model`
UserValues == {Frac(9, 10), Frac(3, 10)}
UserChoices == UNION {[keys -> UserValues] : keys \in SUBSET VendorKeys}

\* the process before the first object is made: the class dictionaries as
\* definitions.py defines them
InitNew ==
  /\ model = DefaultModel
  /\ modelUserChoice = <<>>
  /\ vendor = "none"
  /\ t = <<>> /\ h = <<>> /\ p = <<>> /\ valid = Mask(<<>>)
  /\ iLHU = << <<-1, -1, -1, -1>> >>
  /\ iDrift = <<-1, -1>>
  /\ method = ISO
  /\ successTest = <<>>
  /\ testName = "" /\ testList = <<>> /\ allTestList = <<>> /\ file = <<>>
  /\ newFileRead = TRUE
  /\ loop = "none" /\ visited = <<>>
  /\ cal = NoCal
  /\ slope = Arr(<<>>) /\ k2p = Arr(<<>>) /\ modulusRed = Arr(<<>>) /\ modulus = Arr(<<>>)
  /\ Ac = Arr(<<>>) /\ hc = Arr(<<>>) /\ hardness = Arr(<<>>)
  /\ metaUser = NoMeta
  /\ tip = [compliance |-> Num(0), prefactors |-> Prefactors(<<>>, "perfect")]
  /\ evaluateSAtMax = TRUE
  /\ exc = "none"
  /\ lastOp = "import"
  /\ calls = 0
  /\ edges = [loadIdx |-> <<>>, unloadIdx |-> <<>>]
  /\ hist = NoHist

\* Indentation(fileName, model=choice) for a file of vendor `v`:
\* self.model is the dictionary _DefaultModel itself (__init__.py:64), updated
\* with the user's choice (line 66) and by fillVendorDefaults (line 95)
newIndentation(v, choice) ==
  /\ calls < MaxObjects
  /\ modelUserChoice' = choice
  /\ vendor' = v
  /\ model' = fillVendorDefaults(update(model, choice), choice, v, VendorKeys)
  /\ lastOp' = "__init__"
  /\ calls' = calls + 1
  /\ UNCHANGED <<arrays, cycles, results, tip, evaluateSAtMax, tests, forLoop, cal, exc, hist>>

NextNew == \E v \in DetectedVendors, choice \in UserChoices : newIndentation(v, choice)
SpecNew == InitNew /\ [][NextNew]_vars

----------------------------------------------------------------------------
(* identifyLoadHoldUnloadCSM (main.py 295-355), the segmentation of a CSM     *)
(* test and the backup of identifyLoadHoldUnload.  Indices are those of the   *)
(* code (0-based); forces are finite, so that np.histogram does not raise.    *)

MaxSamples == 7       \* samples of a CSM trace
HistogramBins == 1000

\* [exc, iLHU, iDrift] that the call leaves; np.min of an empty np.where
\* raises ValueError before anything is assigned
identifyLoadHoldUnloadCSM(pp, hh, oldLHU, oldDrift, unloadPMax) ==
  LET n        == Len(pp)
      idx      == 0 .. (n - 1)
      maxP     == SetMax({pp[i] : i \in DOMAIN pp})
      surface  == {i \in idx : At(hh, i) >= 0}
      \* self.p-np.max(self.p)*self.model['unloadPMax']>0
      above    == {i \in idx : At(pp, i) * unloadPMax.den > maxP * unloadPMax.num}
      iSurface == SetMin(surface)
      iLoad    == SetMin(above)
      iHold0   == IF SetMax(above) = iLoad THEN iLoad + 1 ELSE SetMax(above)
      \* np.histogram(self.p[iHold:], bins=1000): a range of width zero is
      \* widened by 0.5 to both sides
      rest     == iHold0 .. (n - 1)
      lo       == SetMin({At(pp, i) : i \in rest})
      hi       == SetMax({At(pp, i) : i \in rest})
      bin(v)   == IF hi = lo THEN HistogramBins \div 2
                  ELSE IF v = hi THEN HistogramBins - 1
                  ELSE ((v - lo) * HistogramBins) \div (hi - lo)
      count(k) == Cardinality({i \in rest : bin(At(pp, i)) = k})
      bins     == {bin(At(pp, i)) : i \in rest}
      \* np.argmax(hist): the first of the fullest bins
      argmax   == CHOOSE k \in bins :
                    \A j \in bins : count(k) > count(j) \/ (count(k) = count(j) /\ k <= j)
      \* pDrift = bins[np.argmax(hist)+1], times the number of bins
      pDrift   == IF hi = lo THEN HistogramBins * lo + 1
                  ELSE HistogramBins * lo + (argmax + 1) * (hi - lo)
      pCloseToDrift ==
        {i \in rest : /\ At(pp, i) * HistogramBins * unloadPMax.den > pDrift * unloadPMax.num
                      /\ At(pp, i) * HistogramBins * unloadPMax.num < pDrift * unloadPMax.den}
      found    == Cardinality(pCloseToDrift) > 3
      iDriftS0 == IF found THEN SetMin(pCloseToDrift) ELSE n - 2
      iDriftE0 == IF found THEN SetMax(pCloseToDrift) ELSE n - 1
      inOrder  == /\ iSurface < iLoad /\ iLoad < iHold0 /\ iHold0 < iDriftS0
                  /\ iDriftS0 < iDriftE0 /\ iDriftE0 < Len(hh)
      cycle(load, hold, driftS, driftE) ==
        [exc |-> "none", iLHU |-> << <<iSurface, load, hold, driftS>> >>,
         iDrift |-> <<driftS, driftE>>]
  IN  IF surface = {} \/ above = {}
      THEN [exc |-> "ValueError", iLHU |-> oldLHU, iDrift |-> oldDrift]
      ELSE IF iLoad < n - 1
      THEN IF inOrder THEN cycle(iLoad, iHold0, iDriftS0, iDriftE0)
           ELSE cycle(n - 4, n - 3, n - 2, n - 1)
      ELSE cycle(iLoad, n - 3, n - 2, n - 1)

\* identifyLoadHoldUnload(self) of a CSM test (main.py 170-172)
identifyLoadHoldUnloadOfCSM ==
  /\ method = CSM
  /\ calls < MaxCalls
  /\ \E r \in {identifyLoadHoldUnloadCSM(p, h, iLHU, iDrift, model.unloadPMax)} :
       /\ exc' = r.exc
       /\ iLHU' = r.iLHU
       /\ iDrift' = r.iDrift
  /\ lastOp' = "identifyLoadHoldUnloadCSM"
  /\ calls' = calls + 1
  /\ UNCHANGED <<arrays, method, successTest, edges, results, config, tests, forLoop, cal, hist>>

\* a CSM test of up to MaxSamples samples: forces of 0, 50 and 100 mN, a depth
\* that grows by one per sample and meets the surface at sample `atSurface`
\* or nowhere; unloadPMax is the default or the user's 0.5
InitCSM ==
  /\ \E pp \in UNION {[1 .. n -> {0, 50, 100}] : n \in 1 .. MaxSamples} :
     \E atSurface \in {0, 1, Len(pp) - 1, Len(pp)} :
       /\ p = pp
       /\ h = [i \in DOMAIN pp |-> i - 1 - atSurface]
       /\ t = [i \in DOMAIN pp |-> i - 1]
       /\ valid = Mask([i \in DOMAIN pp |-> TRUE])
  /\ method = CSM
  /\ vendor = "Agilent"
  /\ \E choice \in {<<>>, [unloadPMax |-> Frac(1, 2)]} :
       /\ modelUserChoice = choice
       /\ model = fillVendorDefaults(update(DefaultModel, choice), choice, "Agilent", VendorKeys)
  /\ iLHU = << <<-1, -1, -1, -1>> >>
  /\ iDrift = <<-1, -1>>
  /\ successTest = <<>>
  /\ testName = "Test 1" /\ testList = <<>> /\ allTestList = <<"Test 1">> /\ file = <<>>
  /\ newFileRead = TRUE
  /\ loop = "none" /\ visited = <<>>
  /\ cal = NoCal
  /\ slope = Arr(<<>>) /\ k2p = Arr(<<>>) /\ modulusRed = Arr(<<>>) /\ modulus = Arr(<<>>)
  /\ Ac = Arr(<<>>) /\ hc = Arr(<<>>) /\ hardness = Arr(<<>>)
  /\ metaUser = NoMeta
  /\ tip = [compliance |-> Num(0), prefactors |-> Prefactors(<<>>, "perfect")]
  /\ evaluateSAtMax = TRUE
  /\ exc = "none"
  /\ lastOp = "load"
  /\ calls = 0
  /\ edges = [loadIdx |-> <<>>, unloadIdx |-> <<>>]
  /\ hist = NoHist

NextCSM == identifyLoadHoldUnloadOfCSM
SpecCSM == InitCSM /\ [][NextCSM]_vars

----------------------------------------------------------------------------
(* Search for a pop-in by the jump in depth rate (hertz.py popIn).  Depths   *)
(* are in nm and forces in mN.  A depth rate is a parabola a + b*i + c*i^2   *)
(* plus a signal orthogonal to 1, i and i^2: np.polyfit finds the parabola   *)
(* and `depthRate -= np.polyval(fits, x_)` leaves the signal.  Rounding is   *)
(* left out.                                                                 *)

MaxRate == 8              \* samples of the depth rate
MaxJump == 1              \* largest third difference in the depth-rate signal
removeInitialNM == 2
maxPlasticFit == 150
minElasticFit == Frac(1, 100)
NearJump == 3             \* while (iJump2-iJump)<3

\* np.argmax: the first index of the largest element
npArgmax(s) ==
  CHOOSE i \in Idx(s) : /\ \A j \in Idx(s) : At(s, j) <= At(s, i)
                        /\ \A j \in 0 .. (i - 1) : At(s, j) < At(s, i)

\* h[1:]-h[:-1]
depthRateOf(hm) == [i \in 1 .. (Len(hm) - 1) |-> hm[i + 1] - hm[i]]

\* np.polyval(fits, x) of fits = [c, b, a]
polyval(fits, x) == fits[1] * x * x + fits[2] * x + fits[3]

RECURSIVE npSum(_)
npSum(s) == IF s = <<>> THEN 0 ELSE s[1] + npSum(Tail(s))

\* np.polyfit(x_, depthRate, 2) for x_ = arange(len(depthRate)): the parabola
\* of least squares, whose residual is orthogonal to 1, x_ and x_^2 (unique
\* for three samples or more)
polyfit(rate) ==
  LET a0 == 8 * MaxJump + 1
      residual(fits, k) == npSum([i \in DOMAIN rate |->
                                    intPow(i - 1, k) * (rate[i] - polyval(fits, i - 1))])
  IN  CHOOSE fits \in (0 .. 1) \X (0 .. 1) \X (0 .. a0) :
         \A k \in 0 .. 2 : residual(fits, k) = 0

\* del listDepthRate[i]
del(s, i) == SubSeq(s, 1, i) \o SubSeq(s, i + 2, Len(s))

\* lines 69-74, the search for the second largest jump: [exc, secondRate].
\* np.argmax of the emptied list raises ValueError
RECURSIVE secondJump(_, _)
secondJump(listDepthRate, iJump) ==
  IF listDepthRate = <<>> THEN [exc |-> "ValueError", secondRate |-> Unset]
  ELSE LET iJump2 == npArgmax(listDepthRate)
       IN  IF iJump2 - iJump < NearJump THEN secondJump(del(listDepthRate, iJump2), iJump)
           ELSE [exc |-> "none", secondRate |-> SetMax({listDepthRate[i] : i \in DOMAIN listDepthRate})]

\* popIn(correctH, plot=False): [exc, h, fPopIn, certainty] and, when the
\* search of lines 69-74 was reached, the depthRate and iJump it started from.
\* curve_fit returns the offset h0 when it converged and raises RuntimeError
\* otherwise; it raises ValueError without and TypeError with one sample;
\* np.polyfit raises TypeError for an empty array, np.min ValueError
popInOf(hh, pp, valid0, correctH, h0, converged) ==
  LET hv == masked(hh, valid0)
      pv == masked(pp, valid0)
      minH == SetMin({hv[i] : i \in DOMAIN hv})
      mask == [i \in DOMAIN hv |-> hv[i] - minH > removeInitialNM]
      hm == Compress(hv, mask)
      pm == Compress(pv, mask)
      rate == depthRateOf(hm)
      raises(e) == [exc |-> e, h |-> hh, fPopIn |-> Unset, certainty |-> Unset,
                    searched |-> FALSE, depthRate |-> Unset, iJump |-> Unset]
      fitted(depthRate) ==
        LET iJump == npArgmax(depthRate)
            iMax == Min2(npArgmax(pm), iJump + maxPlasticFit)
            elastic == {i \in Idx(pm) : At(pm, i) * minElasticFit.den > minElasticFit.num}
            iMin == SetMin(elastic)
            second == secondJump(depthRate, iJump)
        IN  IF elastic = {} THEN raises("ValueError")
            ELSE IF iMax <= iJump + 1 THEN raises("TypeError")         \* fitPlast
            ELSE IF iJump <= iMin THEN raises("ValueError")            \* fitElast
            ELSE IF iJump = iMin + 1 THEN raises("TypeError")
            ELSE IF ~converged THEN raises("RuntimeError")
            ELSE IF second.exc # "none" THEN
                   [raises(second.exc) EXCEPT !.searched = TRUE, !.depthRate = depthRate,
                                              !.iJump = iJump]
            ELSE [exc |-> "none",
                  h |-> IF correctH THEN [i \in DOMAIN hh |-> hh[i] - h0] ELSE hh,
                  fPopIn |-> At(pm, iJump),
                  certainty |-> [deltaRate |-> At(depthRate, iJump), h0 |-> h0,
                                 deltaH |-> At(hm, iJump + 1) - At(hm, iJump),
                                 secondRate |-> second.secondRate],
                  searched |-> TRUE, depthRate |-> depthRate, iJump |-> iJump]
      corrected(fits) == fitted([i \in DOMAIN rate |-> rate[i] - polyval(fits, i - 1)])
  IN  IF hv = <<>> THEN raises("ValueError")
      ELSE IF rate = <<>> THEN raises("TypeError")
      ELSE corrected(polyfit(rate))

\* popIn() on the loaded test; `hist` keeps what the call returned and the
\* corrected depth rate it searched
popIn(correctH, h0, converged) ==
  /\ calls < MaxCalls
  /\ \E r \in {popInOf(h, p, valid.mask, correctH, h0, converged)} :
        /\ exc' = r.exc
        /\ h' = r.h
        /\ hist' = [fPopIn |-> r.fPopIn, certainty |-> r.certainty, searched |-> r.searched,
                    depthRate |-> r.depthRate, iJump |-> r.iJump]
  /\ lastOp' = "popIn"
  /\ calls' = calls + 1
  /\ UNCHANGED <<t, p, valid, cycles, results, config, tests, forLoop, cal>>

\* the third difference (1, -3, 3, -1) that starts at sample k, times c
thirdDifference(n, k, c) ==
  [i \in 1 .. n |-> IF i = k THEN c ELSE IF i = k + 1 THEN -3 * c
                    ELSE IF i = k + 2 THEN 3 * c ELSE IF i = k + 3 THEN -c ELSE 0]

\* the depth-rate signals of n samples: the sums of third differences, which
\* are the integer signals orthogonal to 1, i and i^2
RECURSIVE signals(_, _)
signals(n, k) ==
  IF k = 0 THEN {[i \in 1 .. n |-> 0]}
  ELSE {[i \in 1 .. n |-> s[i] + thirdDifference(n, k, c)[i]] :
          s \in signals(n, k - 1), c \in (-MaxJump) .. MaxJump}

\* a test with a surface sample at depth 0 and a depth that grows from 3 nm
\* by a parabola plus a signal; the force grows by 1 mN per sample up to
\* sample `peak` and falls after it
InitPop ==
  /\ \E n \in 4 .. MaxRate :
     \E signal \in signals(n, n - 3), fits \in {<<0, 0, 8 * MaxJump + 1>>, <<1, 1, 8 * MaxJump + 1>>},
        peak \in {n + 2, n - 1} :
       LET rate == [i \in 1 .. n |-> signal[i] + polyval(fits, i - 1)]
       IN  /\ h = [i \in 1 .. (n + 2) |->
                    IF i = 1 THEN 0 ELSE 3 + npSum(SubSeq(rate, 1, i - 2))]
           /\ p = [i \in 1 .. (n + 2) |-> IF i <= peak THEN i - 1 ELSE 2 * peak - i - 1]
           /\ t = [i \in 1 .. (n + 2) |-> i - 1]
           /\ valid = Mask([i \in 1 .. (n + 2) |-> TRUE])
  /\ method = ISO
  /\ vendor = "none"
  /\ modelUserChoice = <<>>
  /\ model = DefaultModel
  /\ iLHU = << <<-1, -1, -1, -1>> >>
  /\ iDrift = <<-1, -1>>
  /\ successTest = <<>>
  /\ testName = "Test 1" /\ testList = <<>> /\ allTestList = <<"Test 1">> /\ file = <<>>
  /\ newFileRead = TRUE
  /\ loop = "none" /\ visited = <<>>
  /\ cal = NoCal
  /\ slope = Arr(<<>>) /\ k2p = Arr(<<>>) /\ modulusRed = Arr(<<>>) /\ modulus = Arr(<<>>)
  /\ Ac = Arr(<<>>) /\ hc = Arr(<<>>) /\ hardness = Arr(<<>>)
  /\ metaUser = NoMeta
  /\ tip = [compliance |-> Num(0), prefactors |-> Prefactors(<<>>, "perfect")]
  /\ evaluateSAtMax = TRUE
  /\ exc = "none"
  /\ lastOp = "load"
  /\ calls = 0
  /\ edges = [loadIdx |-> <<>>, unloadIdx |-> <<>>]
  /\ hist = NoHist

NextPop == \E correctH \in BOOLEAN, h0 \in {0, 1}, converged \in BOOLEAN : popIn(correctH, h0, converged)
SpecPop == InitPop /\ [][NextPop]_vars

\* the corrected depth rate that the last popIn searched, without the samples
\* fewer than NearJump away from the pop-in
awayFromJump ==
  {i \in Idx(hist.depthRate) : i - hist.iJump >= NearJump \/ hist.iJump - i >= NearJump}

\* C29: the secondRate that popIn returns is the largest corrected depth rate
\* over the samples three or more away from the pop-in, before or after it
C29_SecondRateIsSecondJump ==
  (lastOp = "popIn" /\ exc = "none") =>
     /\ awayFromJump # {}
     /\ hist.certainty.secondRate = SetMax({At(hist.depthRate, i) : i \in awayFromJump})

\* C30: the search for the second largest jump ends with a secondRate for
\* every trace that reaches it, also when the pop-in is one of the last three
\* samples of the depth rate
C30_SearchYieldsSecondRate ==
  (lastOp = "popIn" /\ hist.searched) =>
     /\ exc = "none"
     /\ hist.certainty # Unset

----------------------------------------------------------------------------
(* Floating-point numbers of the area function and the Oliver-Pharr method.  *)
(* A float is kept exactly as  n/d * sqrt(r) * pi^(pi/2) * 24.494^(k/2) * 10^e *)
(* with n/d in lowest terms, d free of the factors 2 and 5 and n not a        *)
(* multiple of ten, so that equal floats are equal records; a negative r      *)
(* stands for the factor 1/sqrt(-r); d = 0 stands for inf (n = 1),            *)
(* -inf (n = -1) and nan (n = 0).  Rounding is left out: the inputs are       *)
(* chosen so that every value has this form.                                  *)

Float(n, d, r, pi, k, e) ==
  LET RECURSIVE gcd(_, _), shift(_, _, _)
      gcd(a, b) == IF b = 0 THEN a ELSE gcd(b, a % b)
      shift(a, b, x) ==
        IF b % 2 = 0 THEN shift(5 * a, b \div 2, x - 1)
        ELSE IF b % 5 = 0 THEN shift(2 * a, b \div 5, x - 1)
        ELSE IF a % 10 = 0 THEN shift(a \div 10, b, x + 1)
        ELSE [n |-> a, d |-> b, r |-> r, pi |-> pi, k |-> k, e |-> x]
      sign(x) == IF x > 0 THEN 1 ELSE IF x < 0 THEN -1 ELSE 0
      g == gcd(sign(n) * n, sign(d) * d)
  IN  IF d = 0 \/ n = 0
      THEN [n |-> sign(n), d |-> IF d = 0 THEN 0 ELSE 1, r |-> 1, pi |-> 0, k |-> 0, e |-> 0]
      ELSE shift((sign(d) * n) \div g, (sign(d) * d) \div g, e)

\* a * b of floats (inf * 0 is nan)
floatMul(a, b) ==
  IF a.d = 0 \/ b.d = 0
  THEN Float(a.n * b.n, 0, 1, 0, 0, 0)
  ELSE LET RECURSIVE product(_, _, _)
           \* x * y * 10^z, a factor 2 of one and 5 of the other moved to z
           product(x, y, z) ==
             IF x = 0 \/ y = 0 THEN [n |-> 0, e |-> 0]
             ELSE IF x % 2 = 0 /\ y % 5 = 0 THEN product(x \div 2, y \div 5, z + 1)
             ELSE IF x % 5 = 0 /\ y % 2 = 0 THEN product(x \div 5, y \div 2, z + 1)
             ELSE [n |-> x * y, e |-> z]
           n == product(a.n, b.n, a.e + b.e)
           d == a.d * b.d
           r == CASE a.r = 1 -> b.r
                  [] b.r = 1 -> a.r
                  [] a.r = b.r \/ a.r = -b.r -> 1
       IN  Float(IF a.r = b.r /\ a.r > 1 THEN n.n * a.r ELSE n.n,
                 IF a.r = b.r /\ a.r < 0 THEN d * (-a.r) ELSE d,
                 r, a.pi + b.pi, a.k + b.k, n.e)

\* a / b of numpy floats: x/0 is inf, 0/0 and inf/inf are nan, no exception
floatDiv(a, b) ==
  IF b.d = 0 THEN Float(0, IF a.d = 0 \/ b.n = 0 THEN 0 ELSE 1, 1, 0, 0, 0)
  ELSE IF b.n = 0 THEN Float(a.n, 0, 1, 0, 0, 0)
  ELSE floatMul(a, Float(b.d, b.n, IF b.r = 1 THEN 1 ELSE -b.r, -b.pi, -b.k, -b.e))

\* a + b of floats with the same irrational factor (inf - inf is nan)
floatAdd(a, b) ==
  IF a.d = 0 /\ b.d = 0 THEN (IF a.n = b.n THEN a ELSE Float(0, 0, 1, 0, 0, 0))
  ELSE IF a.d = 0 THEN a
  ELSE IF b.d = 0 THEN b
  ELSE IF b.n = 0 THEN a
  ELSE IF a.n = 0 THEN b
  ELSE LET e0 == Min2(a.e, b.e)
       IN  IF a.r = b.r /\ a.pi = b.pi /\ a.k = b.k
           THEN Float(a.n * b.d * intPow(10, a.e - e0) + b.n * a.d * intPow(10, b.e - e0),
                      a.d * b.d, a.r, a.pi, a.k, e0)
           ELSE CHOOSE sum \in {} : TRUE      \* not a float of this form

\* a < b of floats (False when one of them is nan); the irrational factors
\* are compared to three digits: 39/22 and 22/7 for sqrt(pi) and pi, 99/20 and
\* 49/2 for sqrt(24.494) and 24.494
less(a, b) ==
  LET sa == IF a.n > 0 THEN 1 ELSE IF a.n < 0 THEN -1 ELSE 0
      sb == IF b.n > 0 THEN 1 ELSE IF b.n < 0 THEN -1 ELSE 0
      RECURSIVE digits(_)
      digits(x) == IF x < 10 THEN 1 ELSE 1 + digits(x \div 10)
      order(x) == x.e + digits(sa * x.n) - digits(x.d)       \* 10^(order-1) < |x| < 10^(order+1)
      half(j, odd, even) == CASE j = 0 -> <<1, 1>>
                              [] j = 1 -> odd
                              [] j = -1 -> <<odd[2], odd[1]>>
                              [] j = 2 -> even
                              [] j = -2 -> <<even[2], even[1]>>
      \* |x| < |y| for finite x, y of the same sign with x.r = y.r
      below(x, y) ==
        LET fp == half(x.pi - y.pi, <<39, 22>>, <<22, 7>>)
            fk == half(x.k - y.k, <<99, 20>>, <<49, 2>>)
            e0 == Min2(x.e, y.e)
            \* orders of magnitude that decide: n/d is within a factor ten of
            \* 10^order, the irrational factors within a factor hundred
            gap == IF x.pi = y.pi /\ x.k = y.k THEN 2 ELSE 4
        IN  IF x.r # y.r THEN CHOOSE unknown \in {} : TRUE
            ELSE IF order(x) - order(y) >= gap THEN FALSE
            ELSE IF order(y) - order(x) >= gap THEN TRUE
            ELSE sa * x.n * y.d * fp[1] * fk[1] * intPow(10, x.e - e0)
                   < sa * y.n * x.d * fp[2] * fk[2] * intPow(10, y.e - e0)
  IN  IF (a.d = 0 /\ a.n = 0) \/ (b.d = 0 /\ b.n = 0) THEN FALSE
      ELSE IF sa # sb THEN sa < sb
      ELSE IF sa = 0 \/ (a.d = 0 /\ b.d = 0) THEN FALSE
      ELSE IF a.d = 0 THEN sa < 0
      ELSE IF b.d = 0 THEN sa > 0
      ELSE IF sa > 0 THEN below(a, b) ELSE below(b, a)

\* np.sqrt(a), math.sqrt(a): nan for a negative float
npSqrt(a) ==
  LET RECURSIVE root(_, _, _)
      \* the largest s in lo .. hi with s * s <= m
      root(m, lo, hi) == IF lo = hi THEN lo
                         ELSE LET mid == (lo + hi + 1) \div 2
                              IN  IF mid * mid <= m THEN root(m, mid, hi)
                                  ELSE root(m, lo, mid - 1)
      odd == a.e % 2
      m == a.n * a.d * intPow(10, odd)
      s == root(m, 0, Min2(m, 46340))
  IN  IF a.d = 0 THEN (IF a.n > 0 THEN a ELSE Float(0, 0, 1, 0, 0, 0))
      ELSE IF a.n < 0 THEN Float(0, 0, 1, 0, 0, 0)
      ELSE IF a.n = 0 THEN a
      ELSE IF a.r # 1 \/ a.pi % 2 # 0 \/ a.k % 2 # 0
           THEN CHOOSE fourthRoot \in {} : TRUE   \* not a float of this form
      ELSE IF s * s = m
           THEN Float(s, a.d, 1, a.pi \div 2, a.k \div 2, (a.e - odd) \div 2)
           ELSE Float(1, a.d, m, a.pi \div 2, a.k \div 2, (a.e - odd) \div 2)

\* np.power(a, 2./math.pow(2, i)): the square, a itself, and repeated roots
RECURSIVE npPower(_, _)
npPower(a, i) == IF i = 0 THEN floatMul(a, a)
                 ELSE IF i = 1 THEN a
                 ELSE npSqrt(npPower(a, i - 1))

----------------------------------------------------------------------------
(* Tip.areaFunction and Tip.areaFunctionInverse (tip.py 72-160) of self.tip.  *)
(* The prefactors are Prefactors(values, tag) with Frac values, or None for a *)
(* tip with tip.interpFunction = [x, y], the points of a linear scipy         *)
(* interp1d.  Of the opening angles of a sphere only 30 degrees is tabulated. *)

\* self.tip.areaFunction(h) for the array of contact depths in um
areaFunction(depths) ==
  LET number(x) == Float(x, 1, 1, 0, 0, 0)
      float(x) == Float(x.num, x.den, 1, 0, 0, 0)
      minus(a, b) == floatAdd(a, [b EXCEPT !.n = -b.n])
      threshH == Float(1, 1000, 1, 0, 0, 0)
      values == tip.prefactors.values
      tag == tip.prefactors.tag
      \* h = h*1000.; h[h<threshH] = threshH
      nm(x) == LET scaled == floatMul(x, number(1000))
               IN  IF less(scaled, threshH) THEN threshH ELSE scaled
      RECURSIVE polynomial(_, _, _, _)
      \* area += prefactors[i]*np.power(h, exponent) for the i of range(i, n)
      polynomial(x, i, n, sum) ==
        IF i = n THEN sum
        ELSE polynomial(x, i + 1, n, floatAdd(sum, floatMul(float(values[i + 1]), npPower(x, i))))
      \* math.cos, math.sin, math.tan of the opening angle in degrees
      cos == CASE values[2] = Frac(30, 1) -> Float(1, 2, 3, 0, 0, 0)
      sin == CASE values[2] = Frac(30, 1) -> Float(1, 2, 1, 0, 0, 0)
      tan == CASE values[2] = Frac(30, 1) -> Float(1, 1, -3, 0, 0, 0)
      radius == floatMul(float(values[1]), number(1000))
      rArea(x) ==
        IF less(floatMul(radius, sin), minus(radius, x))
        THEN npSqrt(minus(floatMul(radius, radius),
                          floatMul(minus(radius, x), minus(radius, x))))
        ELSE minus(floatDiv(radius, cos), floatMul(tan, minus(radius, x)))
      area(x) ==
        CASE tag = "iso" -> polynomial(x, 0, Len(values), number(0))
          [] tag = "isoPlusConstant" ->
               polynomial(floatAdd(x, float(values[Len(values)])), 0, Len(values) - 1, number(0))
          [] tag = "perfect" -> floatMul(Float(1, 1, 1, 0, 2, 0), npPower(x, 0))
          [] tag = "sphere" -> floatMul(Float(1, 1, 1, 2, 0, 0), floatMul(rArea(x), rArea(x)))
          [] OTHER -> number(0)               \* prints *ERROR*, area stays zero
      \* self.interpFunction(h/1000.), linear, fill_value='extrapolate'
      f == tip.interpFunction
      interp(x) ==
        LET below == Cardinality({j \in DOMAIN f.x : less(float(f.x[j]), x)})
            hi == Max2(2, Min2(Len(f.x), below + 1))
            x0 == float(f.x[hi - 1])
            y0 == float(f.y[hi - 1])
            slope0 == floatDiv(minus(float(f.y[hi]), y0), minus(float(f.x[hi]), x0))
        IN  floatAdd(y0, floatMul(slope0, minus(x, x0)))
      \* area[area<0] = 0.0
      positive(a) == IF less(a, number(0)) THEN number(0) ELSE a
      one(x) ==
        IF tip.prefactors = None THEN interp(floatDiv(nm(x), number(1000)))
        ELSE floatDiv(positive(area(nm(x))), number(1000000))
  IN  [i \in DOMAIN depths |-> one(depths[i])]

\* self.tip.areaFunctionInverse(area, hc0): [exc, h]; the Newton iteration of
\* an 'iso' tip is outside this model
areaFunctionInverse(area, hc0) ==
  IF tip.prefactors = None THEN [exc |-> "TypeError", h |-> Unset]
  ELSE IF tip.prefactors.tag = "iso" THEN [exc |-> "newton", h |-> Unset]
  ELSE IF tip.prefactors.tag = "perfect"
       THEN [exc |-> "none", h |-> npSqrt(floatDiv(area, Float(1, 1, 1, 0, 2, 0)))]
  ELSE [exc |-> "UnboundLocalError", h |-> Unset]   \* prints *ERROR*, h is not bound

----------------------------------------------------------------------------
(* The Oliver-Pharr method and its inverse (theory.py 45-93), with           *)
(* calcYoungsModulus and calcHardness (main.py 13-64)                        *)

\* [modulus, Ac, hc] for arrays of the same length
OliverPharrMethod(stiffness, pMax, h0, nonMetal) ==
  LET threshAc == Float(1, 1, 1, 0, 0, -12)
      beta == Float(model.beta.num, model.beta.den, 1, 0, 0, 0)
      \* hc = h - nonMetal*self.model['beta']*pMax/stiffness
      hc0 == [i \in DOMAIN h0 |->
               LET depth == floatDiv(floatMul(floatMul(nonMetal, beta), pMax[i]), stiffness[i])
               IN  floatAdd(h0[i], [depth EXCEPT !.n = -depth.n])]
      \* Ac[Ac< threshAc] = threshAc
      clamped(area) == [i \in DOMAIN h0 |-> IF less(area[i], threshAc) THEN threshAc ELSE area[i]]
      \* modulus = stiffness / (2.0*np.sqrt(Ac)/np.sqrt(np.pi))
      modulus0(Ac0) == [i \in DOMAIN h0 |->
                         floatDiv(stiffness[i],
                                  floatDiv(floatMul(Float(2, 1, 1, 0, 0, 0), npSqrt(Ac0[i])),
                                           npSqrt(Float(1, 1, 1, 2, 0, 0))))]
      returned(hc1, Ac0) == [modulus |-> modulus0(Ac0), Ac |-> Ac0, hc |-> hc1]
  IN  returned(hc0, clamped(areaFunction(hc0)))

\* the contact depth returned as the depth: h = hc
inverseWithoutLag(stiffness, pMax, modulusRed0, nonMetal) ==
  LET ratio == floatDiv(stiffness[1], floatDiv(floatMul(Float(2, 1, 1, 0, 0, 0), modulusRed0),
                                               npSqrt(Float(1, 1, 1, 2, 0, 0))))
      inverse == areaFunctionInverse(floatMul(ratio, ratio), Unset)
  IN  [exc |-> inverse.exc, h |-> <<inverse.h>>]

\* [exc, h] for arrays of one element and a float modulusRed: math.pow raises
\* TypeError for a longer array
inverseOliverPharrMethod(stiffness, pMax, modulusRed0, nonMetal) ==
  LET beta == Float(model.beta.num, model.beta.den, 1, 0, 0, 0)
      sqrtPi == npSqrt(Float(1, 1, 1, 2, 0, 0))
      ratio == floatDiv(stiffness[1], floatDiv(floatMul(Float(2, 1, 1, 0, 0, 0), modulusRed0), sqrtPi))
      Ac0 == floatMul(ratio, ratio)
      hc0 == npSqrt(floatDiv(Ac0, Float(1, 1, 1, 0, 2, 0)))
      inverse == areaFunctionInverse(Ac0, hc0)
  IN  IF Len(stiffness) # 1 THEN [exc |-> "TypeError", h |-> Unset]
      ELSE IF inverse.exc # "none" THEN inverse
      ELSE [exc |-> "none",
            h |-> <<floatAdd(inverse.h,
                             floatDiv(floatMul(floatMul(nonMetal, beta), pMax[1]), stiffness[1]))>>]

\* the tips of the evaluated objects: the default tip, the area function of
\* verification.py:48 to one decimal, its first two terms, these with the
\* smallest constant of a calibration with constantTerm, a sphere of radius
\* 0.001 um that opens by 30 degrees, a list whose last entry is no known type,
\* and an interpolation through two points
Tips ==
  {[compliance |-> Num(0), prefactors |-> pre, interpFunction |-> None] : pre \in
     {Prefactors(<<>>, "perfect"),
      Prefactors(<<Frac(248, 10), Frac(4025, 10), Frac(-30709, 10), Frac(36999, 10)>>, "iso"),
      Prefactors(<<Frac(248, 10), Frac(4025, 10)>>, "iso"),
      Prefactors(<<Frac(248, 10), Frac(4025, 10), Frac(1, 2)>>, "isoPlusConstant"),
      Prefactors(<<Frac(1, 1000), Frac(30, 1)>>, "sphere"),
      Prefactors(<<Frac(243, 10)>>, "berkovich")}}
  \cup {[compliance |-> Num(0), prefactors |-> None,
         interpFunction |-> [x |-> <<Frac(0, 1), Frac(1, 1)>>, y |-> <<Frac(0, 1), Frac(25, 1)>>]]}

\* an object with one or two valid samples: stiffness S [mN/um], force P [mN]
\* and depth [um] of the given contact depths.  The contact depths of a
\* polynomial with roots are fourth powers in nm, so that every root is exact
InitOP ==
  \E ti \in Tips, S \in {Float(0, 1, 1, 0, 0, 0), Float(25, 1, 1, 0, 0, 0), Float(100, 1, 1, 0, 0, 0)},
     P \in {Float(0, 1, 1, 0, 0, 0), Float(1, 1, 1, 0, 0, 0)} :
    \E contact \in UNION {[1 .. n -> {Float(-1, 1, 1, 0, 0, -3), Float(0, 1, 1, 0, 0, 0),
                                      Float(625, 1, 1, 0, 0, -7), Float(1, 1, 1, 0, 0, -3),
                                      Float(16, 1, 1, 0, 0, -3)}] : n \in 1 .. 2} :
      LET roots == ti.prefactors # None /\ Len(ti.prefactors.values) > 2
          beta == Float(DefaultModel.beta.num, DefaultModel.beta.den, 1, 0, 0, 0)
      IN  /\ roots => /\ \A i \in DOMAIN contact : contact[i].n > 0
                      /\ S.n # 0 \/ P.n = 0
          /\ tip = ti
          /\ model = DefaultModel
          /\ slope = Arr([i \in DOMAIN contact |-> S])
          /\ p = [i \in DOMAIN contact |-> P]
          /\ h = [i \in DOMAIN contact |->
                   IF S.n = 0 THEN contact[i]
                   ELSE floatAdd(contact[i], floatDiv(floatMul(beta, P), S))]
          /\ valid = Mask([i \in DOMAIN contact |-> TRUE])
          /\ t = [i \in DOMAIN contact |-> i]
  /\ modelUserChoice = <<>>
  /\ vendor = "none"
  /\ iLHU = << <<-1, -1, -1, -1>> >>
  /\ iDrift = <<-1, -1>>
  /\ method = ISO
  /\ successTest = <<>>
  /\ testName = "" /\ testList = <<>> /\ allTestList = <<>> /\ file = <<>>
  /\ newFileRead = TRUE
  /\ loop = "none" /\ visited = <<>>
  /\ cal = NoCal
  /\ k2p = Arr(<<>>) /\ modulusRed = Arr(<<>>) /\ modulus = Arr(<<>>)
  /\ Ac = Arr(<<>>) /\ hc = Arr(<<>>) /\ hardness = Arr(<<>>)
  /\ metaUser = NoMeta
  /\ evaluateSAtMax = TRUE
  /\ exc = "none"
  /\ lastOp = "__init__"
  /\ calls = 0
  /\ edges = [loadIdx |-> <<>>, unloadIdx |-> <<>>]
  /\ hist = [inverse |-> FALSE, modulusRed |-> Unset]

\* calcYoungsModulus() (main.py 13-51) without plot: minDepth = -1
calcYoungsModulus ==
  /\ calls < MaxCalls
  /\ \E r \in {OliverPharrMethod(slope.arr, masked(p, valid.mask), masked(h, valid.mask),
                                 Float(model.nonMetal.num, model.nonMetal.den, 1, 0, 0, 0))} :
        /\ modulusRed' = Arr(r.modulus)
        /\ Ac' = Arr(r.Ac)
        /\ hc' = Arr(r.hc)
        /\ modulus' = Arr([i \in DOMAIN r.modulus |-> [f |-> "YoungsModulus", modulusRed |-> r.modulus[i]]])
  /\ exc' = "none"
  /\ lastOp' = "calcYoungsModulus"
  /\ calls' = calls + 1
  /\ UNCHANGED <<arrays, cycles, slope, k2p, hardness, metaUser, config, tests, forLoop, cal, hist>>

\* calcHardness() (main.py 54-82) without plot
calcHardness ==
  /\ calls < MaxCalls
  /\ \E r \in {OliverPharrMethod(slope.arr, masked(p, valid.mask), masked(h, valid.mask),
                                 Float(model.nonMetal.num, model.nonMetal.den, 1, 0, 0, 0))} :
        hardness' = Arr([i \in DOMAIN r.Ac |-> floatDiv(masked(p, valid.mask)[i], r.Ac[i])])
  /\ exc' = "none"
  /\ lastOp' = "calcHardness"
  /\ calls' = calls + 1
  /\ UNCHANGED <<arrays, cycles, slope, k2p, modulusRed, modulus, Ac, hc, metaUser, config,
                 tests, forLoop, cal, hist>>

\* self.h = self.inverseOliverPharrMethod(self.slope, self.p[self.valid], given):
\* the depth that belongs to the reduced modulus `given`
inverseDepth(given) ==
  /\ calls < MaxCalls
  /\ IF tip.prefactors = None THEN TRUE ELSE tip.prefactors.tag # "iso"
  /\ \E r \in {inverseOliverPharrMethod(slope.arr, masked(p, valid.mask), given,
                                        Float(model.nonMetal.num, model.nonMetal.den, 1, 0, 0, 0))} :
        /\ exc' = r.exc
        /\ h' = IF r.exc = "none" THEN r.h ELSE h
        /\ hist' = IF r.exc = "none" THEN [inverse |-> TRUE, modulusRed |-> given] ELSE hist
  /\ lastOp' = "inverseOliverPharrMethod"
  /\ calls' = calls + 1
  /\ UNCHANGED <<t, p, valid, cycles, results, config, tests, forLoop, cal>>

\* the reduced moduli [GPa] are multiples of sqrt(pi/24.494), for which the
\* contact depth of a perfect tip is a decimal number
NextOP ==
  \/ calcYoungsModulus
  \/ calcHardness
  \/ \E given \in {Float(125, 1, 1, 1, -1, 0), Float(1250, 1, 1, 1, -1, 0),
                    Float(125, 1, 1, 1, -1, 6)} : inverseDepth(given)

SpecOP == InitOP /\ [][NextOP]_vars

----------------------------------------------------------------------------
(* Properties of the tip area function and the Oliver-Pharr method *)

\* a >= b of floats
atLeast(a, b) == a = b \/ less(b, a)

\* C18: every contact area that OliverPharrMethod returns to calcYoungsModulus
\* is at least 1e-12, whatever the stiffness, force, depth and tip
C18_AreaAtLeastThreshold ==
  lastOp = "calcYoungsModulus" =>
     \A i \in DOMAIN Ac.arr : atLeast(Ac.arr[i], Float(1, 1, 1, 0, 0, -12))

\* the depth of the last calcYoungsModulus is the one that
\* inverseOliverPharrMethod returned for the reduced modulus hist.modulusRed
roundTrip == lastOp = "calcYoungsModulus" /\ hist.inverse /\ tip.prefactors.tag = "perfect"

\* a = b within 1e-3 relative error, for b > 0
close(a, b) ==
  /\ atLeast(a, floatMul(b, Float(999, 1, 1, 0, 0, -3)))
  /\ atLeast(floatMul(b, Float(1001, 1, 1, 0, 0, -3)), a)

\* what the round trip is to give back: modulusRed,
\* Ac = (S/(2*modulusRed/sqrt(pi)))^2 and hc = h - beta*P/S
givenBack ==
  LET S == slope.arr[1]
      ratio == floatDiv(S, floatDiv(floatMul(Float(2, 1, 1, 0, 0, 0), hist.modulusRed),
                                    Float(1, 1, 1, 1, 0, 0)))
      lag == floatDiv(floatMul(Float(3, 4, 1, 0, 0, 0), p[1]), S)
  IN  /\ close(modulusRed.arr[1], hist.modulusRed)
      /\ close(Ac.arr[1], floatMul(ratio, ratio))
      /\ close(hc.arr[1], floatAdd(h[1], [lag EXCEPT !.n = -lag.n]))

C20_AreaNonDecreasing ==
  lastOp = "calcYoungsModulus" =>
     \A i, j \in DOMAIN hc.arr :
        (less(Float(0, 1, 1, 0, 0, 0), hc.arr[i]) /\ atLeast(hc.arr[j], hc.arr[i]))
           => atLeast(areaFunction(hc.arr)[j], areaFunction(hc.arr)[i])

\* C28: areaFunctionInverse, called by inverseOliverPharrMethod with one
\* stiffness, returns a contact depth and raises nothing for a tip given by
\* an interpolation function (prefactors is None) and for a 'perfect' tip
C28_InverseReturnsDepth ==
  (/\ lastOp = "inverseOliverPharrMethod"
   /\ Len(slope.arr) = 1
   /\ IF tip.prefactors = None THEN TRUE ELSE tip.prefactors.tag = "perfect")
     => /\ exc = "none"
        /\ hist.inverse

----------------------------------------------------------------------------
(* Properties of the segmentation *)

identifyReturned == lastOp = "identifyLoadHoldUnload" /\ exc = "none"
identifyCalled   == lastOp = "identifyLoadHoldUnload"

\* the edge tuples zipped by the last segmentation
zippedCount == Min2(Len(edges.loadIdx), Len(edges.unloadIdx)) \div 2
zippedTuple(i) == <<edges.loadIdx[2 * i + 1], edges.loadIdx[2 * i + 2],
                    edges.unloadIdx[2 * i + 1], edges.unloadIdx[2 * i + 2]>>
outOfOrder(e) == ~(e[1] < e[2] /\ e[2] <= e[3] /\ e[3] < e[4])
someTupleOutOfOrder == \E i \in 0 .. (zippedCount - 1) : outOfOrder(zippedTuple(i))
storedCycles == {k \in DOMAIN iLHU : Len(iLHU[k]) = 4}

\* C1: after identifyLoadHoldUnload (non-CSM) returns, every 4-tuple stored in
\* iLHU satisfies loadStart < loadEnd <= unloadStart < unloadEnd with every index
\* strictly between 0 and len(h), and no zipped edge tuple that violates the
\* ordering is stored as a cycle.
C1_StoredCyclesOrdered ==
  identifyReturned =>
    /\ \A k \in storedCycles :
         /\ iLHU[k][1] < iLHU[k][2]
         /\ iLHU[k][2] <= iLHU[k][3]
         /\ iLHU[k][3] < iLHU[k][4]
         /\ \A j \in 1 .. 4 : 0 < iLHU[k][j] /\ iLHU[k][j] < Len(h)
    /\ \A i \in 0 .. (zippedCount - 1) :
         outOfOrder(zippedTuple(i)) => \A k \in DOMAIN iLHU : iLHU[k] # zippedTuple(i)

\* C1 witness: a segmentation that stored a cycle and met an out-of-order tuple
C1_Witness ==
  identifyReturned /\ storedCycles # {} /\ someTupleOutOfOrder

\* C5: identifyLoadHoldUnload returns without raising for every trace, and
\* leaves iLHU empty when no cycle can be established.
C5_NeverRaises ==
  identifyCalled =>
    /\ exc = "none"
    /\ (storedCycles = {} => iLHU = <<>>)

\* C6: when a zipped edge tuple violates the ordering, iLHU holds only
\* well-formed 4-tuples (no entry stands for the malformed one) and the test is
\* not recorded in output['successTest']; a test without any cycle is not
\* recorded as successful either.
C6_MalformedMarksFailure ==
  identifyReturned =>
    /\ someTupleOutOfOrder =>
         /\ \A k \in DOMAIN iLHU : Len(iLHU[k]) = 4
         /\ \A k \in DOMAIN successTest : successTest[k] # testName
    /\ storedCycles = {} => \A k \in DOMAIN successTest : successTest[k] # testName

\* C11: after identifyLoadHoldUnload returns, the cycles stored in iLHU are
\* ordered by increasing index and do not overlap: of two consecutive stored
\* cycles the earlier one's unloadEnd is <= the later one's loadStart, also when
\* two loading segments precede the first unloading segment.
C11_CyclesDoNotOverlap ==
  identifyReturned =>
    \A k \in storedCycles :
      (k + 1) \in storedCycles => iLHU[k][4] <= iLHU[k + 1][1]

\* C12: after identifyLoadHoldUnload returns, iDrift is a pair (start, end)
\* with start < end < len(h) that ends with the final sample, for every trace,
\* including one without any unloading segment.
C12_DriftSegmentInside ==
  identifyReturned =>
    /\ Len(iDrift) = 2
    /\ iDrift[1] < iDrift[2]
    /\ iDrift[2] < Len(h)
    /\ iDrift[2] = Len(h) - 1

\* C13: segmentation is idempotent: a second identifyLoadHoldUnload on the
\* same test record, with no other operation in between, leaves the iLHU and
\* iDrift of the first call.
secondIdentify ==
  /\ identifyReturned
  /\ lastOp' = "identifyLoadHoldUnload"
  /\ calls' = calls + 1
C13_SegmentationIdempotent ==
  [][secondIdentify => (iLHU' = iLHU /\ iDrift' = iDrift)]_vars

\* C21: after identifyLoadHoldUnload on a non-CSM test, also as part of
\* nextTest, the method is MULTI if and only if more than one valid cycle was
\* stored for the test; a test with exactly one valid cycle is ISO.
C21_MultiIffSeveralCycles ==
  ((lastOp = "identifyLoadHoldUnload" \/ lastOp = "nextTest") /\ exc = "none" /\ method # CSM) =>
     (method = MULTI <=> Cardinality(storedCycles) > 1)

\* C27: whenever identifyLoadHoldUnloadCSM returns True, iLHU holds exactly
\* one cycle [iSurface, iLoad, iHold, iDriftS] with
\* iSurface < iLoad <= iHold < iDriftS, and iDrift = [iDriftS, iDriftE] with
\* iDriftS < iDriftE < len(h)
C27_CsmCycleOrdered ==
  (lastOp = "identifyLoadHoldUnloadCSM" /\ exc = "none") =>
     /\ Len(iLHU) = 1
     /\ iLHU[1][1] < iLHU[1][2] /\ iLHU[1][2] <= iLHU[1][3] /\ iLHU[1][3] < iLHU[1][4]
     /\ iDrift[1] = iLHU[1][4]
     /\ iDrift[1] < iDrift[2] /\ iDrift[2] < Len(h)

----------------------------------------------------------------------------
(* Properties of the construction *)

\* C17: at construction, each vendor-dependent threshold (unloadPMax,
\* unloadPMin, relForceRateNoise) of the model is the user-supplied value when
\* the user gave one, and otherwise the default of the detected vendor from
\* _DefaultVendorDependent.
C17_VendorDefaultsSeeded ==
  lastOp = "__init__" =>
    \A key \in VendorKeys :
      model[key] = IF key \in DOMAIN modelUserChoice THEN modelUserChoice[key]
                   ELSE DefaultVendorDependent[vendor][key]

\* C26: the model of an object is its own: an object constructed without a
\* user choice has the model such an object has in a fresh process, and the
\* construction of a further object leaves the model of the existing one
\* (the dictionary `model` it refers to) as it was
C26_ModelsIndependent ==
  [][lastOp' = "__init__" =>
       /\ modelUserChoice' = <<>> => model' = vendorModel(vendor')
       /\ lastOp = "__init__" => model' = model]_vars

----------------------------------------------------------------------------
(* Properties of analyse and stiffnessFromUnloading *)

analyseCalled   == lastOp = "analyse" /\ hist.analysed
analyseSucceeded == analyseCalled /\ exc = "none" /\ ~hist.skipped

\* the samples of cycle k in [unloadStart, unloadEnd] whose force lies strictly
\* between unloadPMin*p[loadEnd] and unloadPMax*p[loadEnd] (0-based indices)
selected(k) ==
  {i \in iLHU[k][3] .. iLHU[k][4] :
     /\ i \in Idx(p)
     /\ At(p, i) * unloadPMaxDen < At(p, iLHU[k][2]) * unloadPMaxNum
     /\ At(p, i) * unloadPMinDen > At(p, iLHU[k][2]) * unloadPMinNum}
wellFormed(k) == Len(iLHU[k]) = 4 /\ \A j \in 1 .. 4 : iLHU[k][j] \in Idx(p)
reportsCycle(a, k) == a # None /\ k <= Len(a.arr)

\* C3: when the fit window of a cycle is empty, analyse() raises a hard error
\* to its caller and no stiffness, modulus or hardness value, new or left over
\* from an earlier analysis, is reported for that cycle
C3_EmptyWindowIsHardError ==
  (analyseCalled /\ hist.emptyWindow # 0) =>
     /\ exc # "none"
     /\ ~reportsCycle(slope, hist.emptyWindow)
     /\ ~reportsCycle(modulus, hist.emptyWindow)
     /\ ~reportsCycle(hardness, hist.emptyWindow)

\* C4: in a test with several cycles, an empty fit window of one cycle does not
\* abort the test: stiffness and valid-mask entries of the other well-formed
\* cycles with a non-empty window are still produced
C4_EmptyWindowIsolated ==
  (analyseCalled /\ hist.emptyWindow # 0) =>
     \A k \in DOMAIN iLHU :
        (k # hist.emptyWindow /\ wellFormed(k) /\ selected(k) # {}) =>
           /\ slope # None
           /\ valid # None
           /\ \E i \in selected(k) \cup {iLHU[k][3]} : At(valid.mask, i)

\* C7: after any sequence of identifyLoadHoldUnload and analyse calls on a test
\* record, valid is a boolean mask and len(h) = len(p) = len(t) = len(valid)
C7_ArraysAligned ==
  (lastOp \in {"identifyLoadHoldUnload", "analyse"}) =>
     /\ valid # None
     /\ Len(h) = Len(p)
     /\ Len(p) = Len(t)
     /\ Len(t) = Len(valid.mask)

sampleOf(k) == IF evaluateSAtMax THEN iLHU[k][3] ELSE SetMin(selected(k))
perCycle(a) == a # None /\ Len(a.arr) = Len(iLHU)

\* C8: after a successful analyse() of a non-CSM test, the valid mask has
\* exactly one True sample per cycle (unloadStart with evaluateSAtMax, otherwise
\* the first selected sample of the fit window), and stiffness, modulusRed,
\* modulus, Ac, hc, hardness and the lists of metaUser have len(iLHU) entries
\* in cycle order
C8_OneValidSamplePerCycle ==
  analyseSucceeded =>
     /\ valid # None
     /\ Cardinality({i \in DOMAIN valid.mask : valid.mask[i]}) = Len(iLHU)
     /\ \A k \in DOMAIN iLHU : At(valid.mask, sampleOf(k))
     /\ perCycle(slope) /\ perCycle(modulusRed) /\ perCycle(modulus)
     /\ perCycle(Ac) /\ perCycle(hc) /\ perCycle(hardness)
     /\ metaUser # NoMeta
     /\ \A k \in DOMAIN iLHU :
          /\ metaUser.S[k] = slope.arr[k]
          /\ metaUser.pMax[k] = At(p, sampleOf(k))
          /\ metaUser.hMax[k] = At(h, sampleOf(k))
          /\ modulus.arr[k].pMax = At(p, sampleOf(k))
          /\ hardness.arr[k].h = At(h, sampleOf(k))
          /\ metaUser.E[k] = modulus.arr[k]
          /\ metaUser.H[k] = hardness.arr[k]
     /\ Len(metaUser.S) = Len(iLHU) /\ Len(metaUser.segment) = Len(iLHU)

C8_Witness ==
  /\ analyseSucceeded
  /\ ~evaluateSAtMax
  /\ Len(iLHU) = 2
  /\ \A k \in DOMAIN iLHU : Cardinality(selected(k)) > 1

\* the secant through the first and the last selected sample of cycle k
secantOf(k) ==
  LET first == SetMin(selected(k))
      last  == SetMax(selected(k))
  IN  [num |-> At(p, last) - At(p, first), den |-> At(h, last) - At(h, first)]

\* C10: a cycle whose power-law fit failed does not abort the evaluation: the
\* loop goes on with the next cycle, and the stiffness appended for the cycle is
\* B = (p_last - p_first)/(h_last - h_first) of its selected samples, with
\* either evaluation-point policy
C10_FallbackIsSecant ==
  analyseCalled =>
     \A k \in DOMAIN hist.powerlawFit :
        ~hist.powerlawFit[k] =>
           /\ k < Len(iLHU) =>
                \/ Len(hist.powerlawFit) > k
                \/ hist.emptyWindow = k + 1
                \/ hist.raisedAt = k + 1
           /\ (exc = "none" /\ hist.emptyWindow = 0) =>
                /\ perCycle(slope)
                /\ slope.arr[k] = secantOf(k)

C10_Witness ==
  /\ analyseSucceeded
  /\ Len(iLHU) = 2
  /\ hist.powerlawFit = <<FALSE, TRUE>>
  /\ Cardinality(selected(1)) > 1
  /\ slope.arr[1].num # 0

----------------------------------------------------------------------------
(* Properties of the iterator *)

\* C9: a `for testName in indentation` loop visits every test of the file
\* exactly once, in file order, and then stops, for every number of tests >= 1
C9_ForVisitsEveryTest ==
  /\ loop = "done" => visited = allTestList
  /\ loop \in {"next", "body"} =>
        Len(visited) <= Len(allTestList) /\ visited = SubSeq(allTestList, 1, Len(visited))

\* the depth of the current test as nextTest loaded it [um]
loadedDepth ==
  LET sh == Sheets[file[sheetOf(testName)]]
  IN  [i \in DOMAIN sh.h |-> sh.h[i] \div DepthUnit]

\* C25: the frame-compliance correction is applied once per loaded test: after
\* any number of analyse() calls that return on the arrays as they were
\* loaded, h = h_loaded - tip.compliance*p
C25_DepthCorrectedOnce ==
  (lastOp = "analyse" /\ exc = "none" /\ Len(h) = Len(loadedDepth)) =>
     h = [i \in DOMAIN h |-> loadedDepth[i] - tip.compliance.value * p[i]]

----------------------------------------------------------------------------
(* Properties of the calibration *)

calibrationFailed == cal.pc = "raised"
insufficientData  == cal.frameCompliance = None \/ cal.failedAt = "tip.fit"

\* the data points that remain for the area-function fit (calibration.py:58)
tipFitPoints == Cardinality({i \in DOMAIN cal.hAll : cal.hAll[i] > critDepthTip})

\* C14: calibration never returns an unconstrained tip fit: with fewer than 5
\* data points left after the depth/force filtering, calibration() fails and
\* installs no fitted area-function coefficients in the Tip.
C14_FewPointsNoFit ==
  (cal.pc \in {"done", "raised"} /\ cal.failedAt \in {"none", "tip.fit"} /\ tipFitPoints < 5)
    => (cal.pc = "raised" /\ tip.prefactors # fittedPrefactors)

\* C15: during calibration() the writes to the Tip never interleave with a pass
\* over the tests: tip.compliance is written only after the Stage-1 loop over
\* all tests has finished, the Stage-2 pass of analyse() starts only with that
\* compliance stored, and tip.prefactors is written only after the Stage-2 loop
\* over all tests has finished.
C15_TipWrittenBetweenPasses ==
  [][/\ tip'.compliance # tip.compliance =>
          /\ cal.pc \in {"stiffness.fit", "tip.restart"}
          /\ cal.pc = "stiffness.fit" => testList = <<>>
     /\ tip'.prefactors # tip.prefactors => (cal.pc = "tip.fit" /\ testList = <<>>)
     /\ cal'.pc \in {"tip.analyse", "tip.next"} => tip'.compliance = cal'.frameCompliance
    ]_vars

\* C15 witness: a calibration of a file of several tests went through both
\* stages and wrote the compliance and the prefactors
C15_Witness ==
  /\ cal.pc = "done"
  /\ Len(allTestList) > 1
  /\ tip.compliance # cal.tipBefore.compliance
  /\ tip.prefactors = fittedPrefactors

\* leq of two floats with positive denominators
fracLeq(a, b) == a.num * b.den <= b.num * a.den

\* C16: after calibration(numPolynomial=n) has completed, tip.compliance is the
\* Stage-1 regression intercept and tip.prefactors consists of exactly n numeric
\* coefficients followed by the tag 'iso' (with constantTerm: n coefficients,
\* one constant, then 'isoPlusConstant'), the leading coefficient in [10, 60].
C16_TipHoldsResult ==
  cal.pc = "done" =>
    /\ tip.compliance = cal.frameCompliance
    /\ cal.frameCompliance # None
    /\ Len(tip.prefactors.values) = cal.numPolynomial + (IF cal.constantTerm THEN 1 ELSE 0)
    /\ tip.prefactors.tag = (IF cal.constantTerm THEN "isoPlusConstant" ELSE "iso")
    /\ fracLeq(Frac(10, 1), tip.prefactors.values[1])
    /\ fracLeq(tip.prefactors.values[1], Frac(60, 1))

\* C16 witness: a completed calibration with a constant term and several
\* polynomial coefficients
C16_Witness ==
  cal.pc = "done" /\ cal.constantTerm /\ cal.numPolynomial > 1

\* the points of the relaxed filter: depth and force above 50% of their maximum
relaxedFilter ==
  {i \in DOMAIN cal.hAll :
     /\ \E j \in DOMAIN cal.hAll : \A k \in DOMAIN cal.hAll :
           cal.hAll[j] >= cal.hAll[k] /\ 2 * cal.hAll[i] > cal.hAll[j]
     /\ \E j \in DOMAIN cal.pAll : \A k \in DOMAIN cal.pAll :
           cal.pAll[j] >= cal.pAll[k] /\ 2 * cal.pAll[i] > cal.pAll[j]}

\* C22: calibrateStiffness of a non-CSM dataset computes no compliance
\* (returns None) only if the relaxed filter, the top 50% of force and depth,
\* leaves no point either
C22_FailsOnlyAfterRelaxing ==
  (lastOp = "calibrateStiffness" /\ cal.frameCompliance = None) => relaxedFilter = {}

\* C23: Stage 1 regresses over every test of the dataset: when the loop of
\* calibrateStiffness ends, the tests it collected are those of allTestList
C23_StiffnessOverAllTests ==
  cal.pc = "stiffness.fit" => cal.tests = allTestList

\* C24: in the loops of both calibration stages each test contributes its own
\* data: whenever a loop collects self.metaUser after self.analyse(), that
\* analyse() was not skipped, so the data are those of the current test
C24_CollectedDataIsOwn ==
  [][Len(cal'.tests) > Len(cal.tests) => ~hist'.skipped]_vars

\* C2: when calibration() fails for insufficient data (calibrateStiffness finds
\* no qualifying point and returns None, or the area-function fit cannot be
\* done), tip.compliance and tip.prefactors are those of before the call
C2_FailedCalibrationKeepsTip ==
  (calibrationFailed /\ insufficientData) => tip = cal.tipBefore


====
